---------------------------- MODULE Spec2Model ----------------------------
(***************************************************************************)
(* Model of the ILoveSOL pool monitor.                                     *)
(*                                                                         *)
(*   optimized variant  src/ILove_optimized.py  (asyncio: stream reader,   *)
(*                      bounded queue, semaphore-bound tasks, RateLimiter) *)
(*   legacy variant     src/ILove.py            (blocking monitor loop,    *)
(*                      perform_rug_check, save_token_to_file)             *)
(*                                                                         *)
(* One module, several specifications over groups of variables:            *)
(*   Spec         the stream connection manager, the event queue and the   *)
(*                workers (both variants, chosen in Init)                  *)
(*   SpecStore    concurrent save_token_to_file calls on the store files   *)
(*   SpecLimiter  RateLimiter.acquire under a discrete clock               *)
(*   SpecEval     perform_rug_check, attempt by attempt, and               *)
(*                perform_rugcheck_async                                   *)
(*   SpecValidator  is_valid_solana_address on strings                     *)
(*   SpecStoreSeq   save_token_to_file, one call at a time                 *)
(*   SpecPipeline   the pipeline of one event or one boosted token, from   *)
(*                  the transaction lookup to the notification             *)
(*   SpecDispatch   one stream message and the program handlers            *)
(*   SpecExtract    extract_token_address on transaction records           *)
(*   SpecHolders    the holder concentration of a list of holders          *)
(*   SpecDelivery   send_telegram_message_async / send_telegram_message    *)
(*   SpecShutdown   Spec with the signal handler                           *)
(*   SpecLabel      the risk label of format_rugcheck_message              *)
(*   SpecReader     the message loop of the stream reader, message by      *)
(*                  message, with malformed messages                       *)
(*   FairSpec, FairTaskSpec   Spec with the fairness of the event loop     *)
(***************************************************************************)
EXTENDS Integers, Sequences, FiniteSets, TLC

(***************************************************************************)
(* Bounds of the model (not program constants).                            *)
(***************************************************************************)
\* number of pool events the stream delivers in one behaviour
MaxEvents == 3
\* cap on the ghost counter of consecutive failures
MaxConsecFailures == 7
\* MAX_CONCURRENT_POOLS (env, default 5) scaled down
MAX_CONCURRENT_POOLS == 2
\* Queue(maxsize=100) scaled down
QueueMaxsize == 1

(***************************************************************************)
(* Program constants.                                                      *)
(***************************************************************************)
\* maintain_websocket_connection: backoff_time = 1
OptInitialBackoff == 1
\* maintain_websocket_connection: max_backoff = 60; websocket_connection: min(.., 60)
max_backoff == 60
\* websocket_connection(max_retries=5, initial_backoff=5)
max_retries_ws == 5
initial_backoff == 5
\* run_websocket_monitoring: time.sleep(5) in every handler
MonitorSleep == 5

Min(a, b) == IF a <= b THEN a ELSE b

RECURSIVE Pow2(_)
Pow2(n) == IF n <= 0 THEN 1 ELSE 2 * Pow2(n - 1)

Sigs == 1..MaxEvents

VARIABLES
    \* ---- stream connection manager, queue, workers
    variant,        \* "optimized" | "legacy"
    wpc,            \* position of the stream-reading loop
    backoff_time,   \* backoff_time (optimized) / backoff (websocket_connection)
    attempt,        \* websocket_connection: attempt index of the for loop
    conn,           \* current connection: subscription sent, message seen
    consecFailures, \* ghost: failures since the last successful subscription
    lastWait,       \* ghost: the last reconnect wait taken
    exhausted,      \* ghost: websocket_connection has raised on its last attempt
    pending,        \* signature held by the reader (in put / being processed)
    nextSig,        \* number of pool events detected so far
    pool_queue,     \* asyncio.Queue(maxsize)
    tasks,          \* process_pool_async task per signature
    semaphore,      \* Semaphore(MAX_CONCURRENT_POOLS)._value
    \* ---- persistence store (save_token_to_file)
    files,          \* content of valid_tokens.json and unchecked_tokens.json
    sv,             \* per thread: position in save_token_to_file and its locals
    saved,          \* ghost: <<token, file>> of every call that has returned
    nSaves,         \* ghost: number of calls started
    \* ---- RateLimiter
    now,            \* the clock, in ticks
    calls,          \* RateLimiter.calls
    lw,             \* per worker: position in acquire() and its locals
    granted,        \* ghost: the times at which acquire() calls completed
    \* ---- perform_rug_check
    config,         \* config['rugcheck_config']
    ev,             \* position in perform_rug_check, its locals and its result
    \* ---- is_valid_solana_address
    address,        \* the argument, a sequence of characters
    verdict,        \* "none" before the call, then "accept" | "reject"
    \* ---- one event's pipeline (process_new_pool, boosted batch, process_pool_async)
    pvariant,       \* "optimized" | "legacy"
    pl,             \* per worker: position in the pipeline and its locals
    remoteCalls,    \* ghost: identifiers the rug-risk service was called for
    nPipes,         \* ghost: number of pipelines started
    \* ---- dispatch of one stream message to a program handler
    event,          \* the logs of the message: which ids and markers occur
    dispatch,       \* position of the dispatch loop and what it has called
    \* ---- extract_token_address
    payload,        \* the transaction record handed to the extractor
    extracted,      \* the result of the call, per variant
    \* ---- holder concentration
    holderList,     \* topHolders as received
    holderPerm,     \* a rearrangement of holderList
    hc,             \* the concentration computed from either list, per variant
    \* ---- notification delivery
    dv,             \* position in the sender, its locals and its caller
    \* ---- process lifetime
    proc,           \* running or exited, and what was open at the exit
    \* ---- risk label of format_rugcheck_message
    score,          \* rc_result['score']
    label,          \* "none" before the call, then the label
    \* ---- the message loop of one stream reader
    rd              \* position of the reader, its connection and what it did

streamVars == <<variant, wpc, backoff_time, attempt, conn, consecFailures,
                lastWait, exhausted, pending, nextSig, pool_queue, tasks,
                semaphore>>

storeVars == <<files, sv, saved, nSaves>>
limiterVars == <<now, calls, lw, granted>>
evalVars == <<config, ev>>
validatorVars == <<address, verdict>>
pipeVars == <<pvariant, pl, remoteCalls, nPipes>>

dispatchVars == <<event, dispatch>>
extractVars == <<payload, extracted>>
holderVars == <<holderList, holderPerm, hc>>
deliveryVars == <<dv>>
shutdownVars == <<proc>>
labelVars == <<score, label>>
readerVars == <<rd>>
auxVars == <<dispatchVars, extractVars, holderVars, deliveryVars,
             shutdownVars, labelVars, readerVars>>

vars == <<streamVars, storeVars, limiterVars, evalVars, validatorVars, pipeVars,
          auxVars>>

NoConn == [subscribed |-> FALSE, gotMessage |-> FALSE, prior |-> 0]
NoWait == [k |-> 0, secs |-> 0, afterSub |-> FALSE, gotMessage |-> FALSE, prior |-> 0]

\* floor of the reconnect backoff of the running variant
Floor == IF variant = "optimized" THEN OptInitialBackoff ELSE initial_backoff

(***************************************************************************)
(* Init: main() of either variant has started its stream loop.             *)
(***************************************************************************)
InitStream ==
    /\ variant \in {"optimized", "legacy"}
    /\ wpc = "connect"
    /\ backoff_time = Floor
    /\ attempt = 0
    /\ conn = NoConn
    /\ consecFailures = 0
    /\ lastWait = NoWait
    /\ exhausted = FALSE
    /\ pending = 0
    /\ nextSig = 0
    /\ pool_queue = <<>>
    /\ tasks = [s \in Sigs |-> "none"]
    /\ semaphore = MAX_CONCURRENT_POOLS

(***************************************************************************)
(* The parts a specification does not exercise stay in these states.       *)
(***************************************************************************)
FileNames == {"valid_tokens.json", "unchecked_tokens.json"}
Threads == {"stream", "most_active", "latest"}
LimWorkers == {"w1", "w2"}

EmptyList == [kind |-> "list", toks |-> <<>>]
IdleSaver == [pc |-> "idle", tok |-> 0, file |-> "valid_tokens.json",
              existing |-> <<>>, before |-> EmptyList]
IdleLimWorker == [pc |-> "idle", now0 |-> 0, wake |-> 0]
NoHolders == [shape |-> "absent", totalPercentage |-> 0, holders |-> <<>>]
NoScore == [has |-> FALSE, value |-> 0]
NoResponse == [data |-> FALSE, mintAuthority |-> "absent",
               freezeAuthority |-> "absent", topHolders |-> NoHolders,
               score |-> NoScore]
DefaultConfig == [check_mint_authority |-> TRUE, check_freeze_authority |-> TRUE,
                  check_top_holders |-> TRUE]
IdleEval == [pc |-> "idle", attempt |-> 0, failure_reasons |-> <<>>,
             rc_result |-> NoResponse, passed |-> FALSE, reasons |-> <<>>,
             nCalls |-> 0, fromData |-> FALSE, impl |-> "none",
             sleeps |-> <<>>, dataSeen |-> FALSE, calledAfterData |-> FALSE]

StreamIdle ==
    /\ variant = "optimized"
    /\ wpc = "connect"
    /\ backoff_time = OptInitialBackoff
    /\ attempt = 0
    /\ conn = NoConn
    /\ consecFailures = 0
    /\ lastWait = NoWait
    /\ exhausted = FALSE
    /\ pending = 0
    /\ nextSig = 0
    /\ pool_queue = <<>>
    /\ tasks = [s \in Sigs |-> "none"]
    /\ semaphore = MAX_CONCURRENT_POOLS

StoreIdle ==
    /\ files = [f \in FileNames |-> EmptyList]
    /\ sv = [t \in Threads |-> IdleSaver]
    /\ saved = {}
    /\ nSaves = 0

LimiterIdle ==
    /\ now = 0
    /\ calls = <<>>
    /\ lw = [w \in LimWorkers |-> IdleLimWorker]
    /\ granted = <<>>

EvalIdle ==
    /\ config = DefaultConfig
    /\ ev = IdleEval

\* what one call of the Transaction Resolver did: HTTP requests issued, the
\* value returned, records logged at warning or error level, exception raised
NoTx == [requests |-> 0, result |-> "None", logs |-> 0, raised |-> FALSE]

IdlePipe == [pc |-> "idle", path |-> "none", tok |-> 0, evaluated |-> FALSE,
             passed |-> FALSE, failedNotify |-> FALSE, trace |-> <<>>,
             lookup |-> "none", tx |-> NoTx, failureLogs |-> 0]

ValidatorIdle ==
    /\ address = <<>>
    /\ verdict = "none"

PipeIdle ==
    /\ pvariant = "legacy"
    /\ pl = [t \in Threads |-> IdlePipe]
    /\ remoteCalls = {}
    /\ nPipes = 0

NoEvent == [ids |-> {}, markers |-> {}]
IdleDispatch == [pc |-> "idle", impl |-> "none", active_programs |-> <<>>,
                 i |-> 1, calls |-> <<>>]
NoPayload == [tokenTransfers |-> <<>>, instructions |-> <<>>,
              accountKeys |-> <<>>, source |-> "raydium"]
NotExtracted == [done |-> FALSE, legacy |-> 0, optimized |-> 0]
Zero == [num |-> 0, den |-> 1]
NotComputed == [done |-> FALSE, optimized |-> Zero, optimizedPerm |-> Zero,
                legacy |-> 0, legacyPerm |-> 0]
IdleDelivery == [pc |-> "idle", impl |-> "none", retries |-> 0,
                 credentials |-> TRUE, attempt |-> 0, posts |-> 0,
                 responses |-> <<>>, sleeps |-> <<>>, acquires |-> 0,
                 result |-> FALSE, deliveries |-> 0, failedBefore |-> FALSE]
IdleReader == [pc |-> "idle", impl |-> "none", conn |-> 0, pending |-> 0,
               queue |-> <<>>, n |-> 0, history |-> <<>>]
Running == [state |-> "running", at |-> "none", connectionOpen |-> FALSE,
            sessionOpen |-> FALSE]

DispatchIdle ==
    /\ event = NoEvent
    /\ dispatch = IdleDispatch

ExtractIdle ==
    /\ payload = NoPayload
    /\ extracted = NotExtracted

HolderIdle ==
    /\ holderList = <<>>
    /\ holderPerm = <<>>
    /\ hc = NotComputed

DeliveryIdle == dv = IdleDelivery

ShutdownIdle == proc = Running

LabelIdle ==
    /\ score = 0
    /\ label = "none"

ReaderIdle == rd = IdleReader

AuxIdle ==
    /\ DispatchIdle /\ ExtractIdle /\ HolderIdle /\ DeliveryIdle
    /\ ShutdownIdle /\ LabelIdle /\ ReaderIdle

(***************************************************************************)
(* Optimized variant: maintain_websocket_connection                        *)
(***************************************************************************)
\* a failure inside the `while True` body: control reaches the sleep below it
LoopFailure ==
    /\ consecFailures < MaxConsecFailures
    /\ consecFailures' = consecFailures + 1
    /\ wpc' = "sleep"

\* mutant: the connection is read from without the subscription request
maintain_websocket_connection_Connect_SkipSend ==
    /\ variant = "optimized" /\ wpc = "connect"
    /\ conn' = NoConn
    /\ \/ /\ wpc' = "listen"
          /\ UNCHANGED consecFailures
       \/ LoopFailure
    /\ UNCHANGED <<variant, backoff_time, attempt, lastWait, exhausted, pending,
                   nextSig, pool_queue, tasks, semaphore>>
    /\ UNCHANGED <<storeVars, limiterVars, evalVars, validatorVars, pipeVars, auxVars>>

\* async with websockets.connect(...) as websocket
maintain_websocket_connection_Connect ==
    /\ variant = "optimized" /\ wpc = "connect"
    /\ conn' = NoConn
    /\ \/ /\ wpc' = "send"
          /\ UNCHANGED consecFailures
       \/ LoopFailure
    /\ UNCHANGED <<variant, backoff_time, attempt, lastWait, exhausted, pending,
                   nextSig, pool_queue, tasks, semaphore>>
    /\ UNCHANGED <<storeVars, limiterVars, evalVars, validatorVars, pipeVars, auxVars>>

\* mutant: the `backoff_time = 1` after the send is missing
maintain_websocket_connection_Send_NoReset ==
    /\ variant = "optimized" /\ wpc = "send"
    /\ \/ /\ conn' = [subscribed |-> TRUE, gotMessage |-> FALSE,
                      prior |-> consecFailures]
          /\ consecFailures' = 0
          /\ wpc' = "listen"
          /\ UNCHANGED backoff_time
       \/ /\ LoopFailure
          /\ UNCHANGED <<conn, backoff_time>>
    /\ UNCHANGED <<variant, attempt, lastWait, exhausted, pending, nextSig,
                   pool_queue, tasks, semaphore>>
    /\ UNCHANGED <<storeVars, limiterVars, evalVars, validatorVars, pipeVars, auxVars>>

\* await websocket.send(json.dumps(request)); backoff_time = 1
maintain_websocket_connection_Send ==
    /\ variant = "optimized" /\ wpc = "send"
    /\ \/ /\ conn' = [subscribed |-> TRUE, gotMessage |-> FALSE,
                      prior |-> consecFailures]
          /\ backoff_time' = OptInitialBackoff
          /\ consecFailures' = 0
          /\ wpc' = "listen"
       \/ /\ LoopFailure
          /\ UNCHANGED <<conn, backoff_time>>
    /\ UNCHANGED <<variant, attempt, lastWait, exhausted, pending, nextSig,
                   pool_queue, tasks, semaphore>>
    /\ UNCHANGED <<storeVars, limiterVars, evalVars, validatorVars, pipeVars, auxVars>>

\* kinds of stream message that do not announce a pool
IgnoredKinds == {"other_method", "no_marker", "invalid_json", "malformed"}

\* async for message in websocket: one iteration up to its first await
maintain_websocket_connection_Recv ==
    /\ variant = "optimized" /\ wpc = "listen"
    /\ \/ \* logsNotification whose logs hold the initialize2 marker
          /\ nextSig < MaxEvents
          /\ nextSig' = nextSig + 1
          /\ pending' = nextSig + 1
          /\ conn' = [conn EXCEPT !.gotMessage = TRUE]
          /\ wpc' = "put"
          /\ UNCHANGED consecFailures
       \/ \* any other message: parsed (or rejected by the inner except), no put
          /\ \E kind \in IgnoredKinds :
                conn' = [conn EXCEPT !.gotMessage = TRUE]
          /\ UNCHANGED <<wpc, nextSig, pending, consecFailures>>
       \/ \* the connection closes (ConnectionClosedError, or a clean close)
          /\ LoopFailure
          /\ UNCHANGED <<conn, nextSig, pending>>
    /\ UNCHANGED <<variant, backoff_time, attempt, lastWait, exhausted,
                   pool_queue, tasks, semaphore>>
    /\ UNCHANGED <<storeVars, limiterVars, evalVars, validatorVars, pipeVars, auxVars>>

\* mutant: put_nowait with QueueFull swallowed, the event is dropped when full
maintain_websocket_connection_Put_DropWhenFull ==
    /\ variant = "optimized" /\ wpc = "put"
    /\ pool_queue' = IF Len(pool_queue) < QueueMaxsize
                     THEN Append(pool_queue, pending) ELSE pool_queue
    /\ pending' = 0
    /\ wpc' = "listen"
    /\ UNCHANGED <<variant, backoff_time, attempt, conn, consecFailures,
                   lastWait, exhausted, nextSig, tasks, semaphore>>
    /\ UNCHANGED <<storeVars, limiterVars, evalVars, validatorVars, pipeVars, auxVars>>

\* await pool_queue.put(signature): suspends while the queue is full
maintain_websocket_connection_Put ==
    /\ variant = "optimized" /\ wpc = "put"
    /\ Len(pool_queue) < QueueMaxsize
    /\ pool_queue' = Append(pool_queue, pending)
    /\ pending' = 0
    /\ wpc' = "listen"
    /\ UNCHANGED <<variant, backoff_time, attempt, conn, consecFailures,
                   lastWait, exhausted, nextSig, tasks, semaphore>>
    /\ UNCHANGED <<storeVars, limiterVars, evalVars, validatorVars, pipeVars, auxVars>>

\* await asyncio.sleep(backoff_time); backoff_time = min(backoff_time * 2, max_backoff)
maintain_websocket_connection_Sleep ==
    /\ variant = "optimized" /\ wpc = "sleep"
    /\ lastWait' = [k |-> consecFailures, secs |-> backoff_time,
                    afterSub |-> conn.subscribed,
                    gotMessage |-> conn.gotMessage, prior |-> conn.prior]
    /\ backoff_time' = Min(backoff_time * 2, max_backoff)
    /\ wpc' = "connect"
    /\ UNCHANGED <<variant, attempt, conn, consecFailures, exhausted, pending,
                   nextSig, pool_queue, tasks, semaphore>>
    /\ UNCHANGED <<storeVars, limiterVars, evalVars, validatorVars, pipeVars, auxVars>>

(***************************************************************************)
(* Optimized variant: pool_processor and process_pool_async                *)
(***************************************************************************)
\* signature = await pool_queue.get(); asyncio.create_task(process_pool_async(..))
pool_processor_Get ==
    /\ variant = "optimized"
    /\ pool_queue # <<>>
    /\ tasks' = [tasks EXCEPT ![Head(pool_queue)] = "waiting"]
    /\ pool_queue' = Tail(pool_queue)
    /\ UNCHANGED <<variant, wpc, backoff_time, attempt, conn, consecFailures,
                   lastWait, exhausted, pending, nextSig, semaphore>>
    /\ UNCHANGED <<storeVars, limiterVars, evalVars, validatorVars, pipeVars, auxVars>>

\* mutant: the task enters its body without waiting for a free slot
process_pool_async_Acquire_NoWait(s) ==
    /\ tasks[s] = "waiting"
    /\ semaphore' = semaphore - 1
    /\ tasks' = [tasks EXCEPT ![s] = "fetch"]
    /\ UNCHANGED <<variant, wpc, backoff_time, attempt, conn, consecFailures,
                   lastWait, exhausted, pending, nextSig, pool_queue>>
    /\ UNCHANGED <<storeVars, limiterVars, evalVars, validatorVars, pipeVars, auxVars>>

\* async with semaphore: (entry)
process_pool_async_Acquire(s) ==
    /\ tasks[s] = "waiting"
    /\ semaphore > 0
    /\ semaphore' = semaphore - 1
    /\ tasks' = [tasks EXCEPT ![s] = "fetch"]
    /\ UNCHANGED <<variant, wpc, backoff_time, attempt, conn, consecFailures,
                   lastWait, exhausted, pending, nextSig, pool_queue>>
    /\ UNCHANGED <<storeVars, limiterVars, evalVars, validatorVars, pipeVars, auxVars>>

\* mutant: the block is left without giving the slot back
ReleaseSlot_Leaks(s) ==
    /\ UNCHANGED semaphore
    /\ tasks' = [tasks EXCEPT ![s] = "done"]

\* leaving the `async with semaphore` block, by return, exception or fall-through
ReleaseSlot(s) ==
    /\ semaphore' = semaphore + 1
    /\ tasks' = [tasks EXCEPT ![s] = "done"]

\* fetch_transaction_details_async, then extract_token_address
process_pool_async_Fetch(s) ==
    /\ tasks[s] = "fetch"
    /\ \E r \in {"not_found", "no_mint", "mint", "raises"} :
          IF r = "mint"
          THEN /\ tasks' = [tasks EXCEPT ![s] = "rugcheck"]
               /\ UNCHANGED semaphore
          ELSE ReleaseSlot(s)
    /\ UNCHANGED <<variant, wpc, backoff_time, attempt, conn, consecFailures,
                   lastWait, exhausted, pending, nextSig, pool_queue>>
    /\ UNCHANGED <<storeVars, limiterVars, evalVars, validatorVars, pipeVars, auxVars>>

\* perform_rugcheck_async
process_pool_async_Rugcheck(s) ==
    /\ tasks[s] = "rugcheck"
    /\ \E r \in {"none", "result", "raises"} :
          IF r = "result"
          THEN /\ tasks' = [tasks EXCEPT ![s] = "notify"]
               /\ UNCHANGED semaphore
          ELSE ReleaseSlot(s)
    /\ UNCHANGED <<variant, wpc, backoff_time, attempt, conn, consecFailures,
                   lastWait, exhausted, pending, nextSig, pool_queue>>
    /\ UNCHANGED <<storeVars, limiterVars, evalVars, validatorVars, pipeVars, auxVars>>

\* asyncio.gather(photo_task, message_task), metrics, end of the block
process_pool_async_Notify(s) ==
    /\ tasks[s] = "notify"
    /\ ReleaseSlot(s)
    /\ UNCHANGED <<variant, wpc, backoff_time, attempt, conn, consecFailures,
                   lastWait, exhausted, pending, nextSig, pool_queue>>
    /\ UNCHANGED <<storeVars, limiterVars, evalVars, validatorVars, pipeVars, auxVars>>

(***************************************************************************)
(* Legacy variant: websocket_connection                                    *)
(***************************************************************************)
\* except Exception in websocket_connection: raise on the last attempt,
\* otherwise sleep and retry
websocket_connection_Fail ==
    /\ consecFailures < MaxConsecFailures
    /\ consecFailures' = consecFailures + 1
    /\ IF attempt = max_retries_ws - 1
       THEN /\ exhausted' = TRUE
            /\ wpc' = "mon_sleep"
       ELSE /\ wpc' = "wc_sleep"
            /\ UNCHANGED exhausted

\* ws = websocket.create_connection(wss_url, timeout=30)
websocket_connection_Connect ==
    /\ variant = "legacy" /\ wpc = "connect"
    /\ conn' = NoConn
    /\ \/ /\ wpc' = "send"
          /\ UNCHANGED <<consecFailures, exhausted>>
       \/ websocket_connection_Fail
    /\ UNCHANGED <<variant, backoff_time, attempt, lastWait, pending, nextSig,
                   pool_queue, tasks, semaphore>>
    /\ UNCHANGED <<storeVars, limiterVars, evalVars, validatorVars, pipeVars, auxVars>>

\* ws.send(json.dumps(request)); return ws
websocket_connection_Send ==
    /\ variant = "legacy" /\ wpc = "send"
    /\ \/ /\ conn' = [subscribed |-> TRUE, gotMessage |-> FALSE,
                      prior |-> consecFailures]
          /\ consecFailures' = 0
          /\ wpc' = "recv"
          /\ UNCHANGED exhausted
       \/ /\ websocket_connection_Fail
          /\ UNCHANGED conn
    /\ UNCHANGED <<variant, backoff_time, attempt, lastWait, pending, nextSig,
                   pool_queue, tasks, semaphore>>
    /\ UNCHANGED <<storeVars, limiterVars, evalVars, validatorVars, pipeVars, auxVars>>

\* time.sleep(backoff); backoff = min(backoff * 2, 60); next attempt
websocket_connection_Sleep ==
    /\ variant = "legacy" /\ wpc = "wc_sleep"
    /\ lastWait' = [k |-> consecFailures, secs |-> backoff_time,
                    afterSub |-> conn.subscribed,
                    gotMessage |-> conn.gotMessage, prior |-> conn.prior]
    /\ backoff_time' = Min(backoff_time * 2, max_backoff)
    /\ attempt' = attempt + 1
    /\ wpc' = "connect"
    /\ UNCHANGED <<variant, conn, consecFailures, exhausted, pending, nextSig,
                   pool_queue, tasks, semaphore>>
    /\ UNCHANGED <<storeVars, limiterVars, evalVars, validatorVars, pipeVars, auxVars>>

(***************************************************************************)
(* Legacy variant: run_websocket_monitoring and process_new_pool           *)
(***************************************************************************)
\* message = ws.recv(); data = json.loads(message); program match
run_websocket_monitoring_Recv ==
    /\ variant = "legacy" /\ wpc = "recv"
    /\ \/ \* logsNotification matching an active program: process_new_pool(..)
          /\ nextSig < MaxEvents
          /\ nextSig' = nextSig + 1
          /\ pending' = nextSig + 1
          /\ conn' = [conn EXCEPT !.gotMessage = TRUE]
          /\ wpc' = "fetch"
       \/ \* a message that matches no program, or is no logsNotification
          /\ \E kind \in {"other_method", "no_marker"} :
                conn' = [conn EXCEPT !.gotMessage = TRUE]
          /\ UNCHANGED <<wpc, nextSig, pending>>
       \/ \* json.loads or the field access raises: `except Exception` below
          /\ \E kind \in {"invalid_json", "malformed"} :
                conn' = [conn EXCEPT !.gotMessage = TRUE]
          /\ wpc' = "mon_sleep"
          /\ UNCHANGED <<nextSig, pending>>
       \/ \* ws.recv() raises: timeout, connection closed, WebSocketException
          /\ wpc' = "mon_sleep"
          /\ UNCHANGED <<conn, nextSig, pending>>
    /\ UNCHANGED <<variant, backoff_time, attempt, consecFailures, lastWait,
                   exhausted, pool_queue, tasks, semaphore>>
    /\ UNCHANGED <<storeVars, limiterVars, evalVars, validatorVars, pipeVars, auxVars>>

\* the handlers of run_websocket_monitoring: time.sleep(5), ws.close(), and
\* the next iteration of `while True` calls websocket_connection afresh
run_websocket_monitoring_Sleep ==
    /\ variant = "legacy" /\ wpc = "mon_sleep"
    /\ lastWait' = [k |-> consecFailures, secs |-> MonitorSleep,
                    afterSub |-> conn.subscribed,
                    gotMessage |-> conn.gotMessage, prior |-> conn.prior]
    /\ attempt' = 0
    /\ backoff_time' = initial_backoff
    /\ wpc' = "connect"
    /\ UNCHANGED <<variant, conn, consecFailures, exhausted, pending, nextSig,
                   pool_queue, tasks, semaphore>>
    /\ UNCHANGED <<storeVars, limiterVars, evalVars, validatorVars, pipeVars, auxVars>>

\* fetch_transaction_details, extract_token_address, is_valid_solana_address
process_new_pool_Fetch ==
    /\ variant = "legacy" /\ wpc = "fetch"
    /\ \E r \in {"not_found", "no_mint", "invalid", "mint", "raises"} :
          CASE r = "mint" -> wpc' = "evaluate" /\ UNCHANGED pending
            [] r = "raises" ->
                  \* a mint that is no string: re.match raises TypeError, which
                  \* reaches `except Exception` of the monitor
                  wpc' = "mon_sleep" /\ pending' = 0
            [] OTHER -> wpc' = "recv" /\ pending' = 0
    /\ UNCHANGED <<variant, backoff_time, attempt, conn, consecFailures,
                   lastWait, exhausted, nextSig, pool_queue, tasks, semaphore>>
    /\ UNCHANGED <<storeVars, limiterVars, evalVars, validatorVars, pipeVars, auxVars>>

\* perform_rug_check(token_mint, config), with its retry sleeps
process_new_pool_Evaluate ==
    /\ variant = "legacy" /\ wpc = "evaluate"
    /\ \E passed \in BOOLEAN :
          wpc' = IF passed THEN "persist_valid" ELSE "persist_rejected"
    /\ UNCHANGED <<variant, backoff_time, attempt, conn, consecFailures,
                   lastWait, exhausted, pending, nextSig, pool_queue, tasks,
                   semaphore>>
    /\ UNCHANGED <<storeVars, limiterVars, evalVars, validatorVars, pipeVars, auxVars>>

\* save_token_to_file(token_mint, VALID_TOKENS_FILE | UNCHECKED_TOKENS_FILE)
process_new_pool_Persist ==
    /\ variant = "legacy" /\ wpc \in {"persist_valid", "persist_rejected"}
    /\ IF wpc = "persist_valid"
       THEN wpc' = "notify" /\ UNCHANGED pending
       ELSE wpc' = "recv" /\ pending' = 0
    /\ UNCHANGED <<variant, backoff_time, attempt, conn, consecFailures,
                   lastWait, exhausted, nextSig, pool_queue, tasks, semaphore>>
    /\ UNCHANGED <<storeVars, limiterVars, evalVars, validatorVars, pipeVars, auxVars>>

\* fetch_dexscreener_data, send_telegram_message, send_telegram_photo
process_new_pool_Notify ==
    /\ variant = "legacy" /\ wpc = "notify"
    /\ \/ wpc' = "recv" /\ pending' = 0
       \/ \* fetch_dexscreener_data or format_passcheck_message raises: the
          \* `except Exception` of process_new_pool saves the token as rejected
          wpc' = "persist_rejected" /\ UNCHANGED pending
    /\ UNCHANGED <<variant, backoff_time, attempt, conn, consecFailures,
                   lastWait, exhausted, nextSig, pool_queue, tasks, semaphore>>
    /\ UNCHANGED <<storeVars, limiterVars, evalVars, validatorVars, pipeVars, auxVars>>

(***************************************************************************)
(* Specification of the stream pipeline                                    *)
(***************************************************************************)
Init ==
    InitStream /\ StoreIdle /\ LimiterIdle /\ EvalIdle /\ ValidatorIdle /\ PipeIdle
    /\ AuxIdle

Next ==
    \/ maintain_websocket_connection_Connect
    \/ maintain_websocket_connection_Send
    \/ maintain_websocket_connection_Recv
    \/ maintain_websocket_connection_Put
    \/ maintain_websocket_connection_Sleep
    \/ pool_processor_Get
    \/ \E s \in Sigs : process_pool_async_Acquire(s)
    \/ \E s \in Sigs : process_pool_async_Fetch(s)
    \/ \E s \in Sigs : process_pool_async_Rugcheck(s)
    \/ \E s \in Sigs : process_pool_async_Notify(s)
    \/ websocket_connection_Connect
    \/ websocket_connection_Send
    \/ websocket_connection_Sleep
    \/ run_websocket_monitoring_Recv
    \/ run_websocket_monitoring_Sleep
    \/ process_new_pool_Fetch
    \/ process_new_pool_Evaluate
    \/ process_new_pool_Persist
    \/ process_new_pool_Notify

Spec == Init /\ [][Next]_vars

\* asyncio runs every ready coroutine: a get on a non-empty queue and a put on
\* a non-full queue are eventually taken
FairSpec ==
    /\ Spec
    /\ WF_vars(pool_processor_Get)
    /\ WF_vars(maintain_websocket_connection_Put)

\* the next step of the task process_pool_async(semaphore, session, s)
process_pool_async(s) ==
    \/ process_pool_async_Acquire(s)
    \/ process_pool_async_Fetch(s)
    \/ process_pool_async_Rugcheck(s)
    \/ process_pool_async_Notify(s)

\* and, provided the external calls of a task return, every task that can
\* take a step takes it; a free slot goes to a waiting task
FairTaskSpec ==
    /\ FairSpec
    /\ \A s \in Sigs : WF_vars(process_pool_async(s))

(***************************************************************************)
(* Properties of the stream pipeline                                       *)
(***************************************************************************)
\* a task is inside `async with semaphore`
InSlot(s) == tasks[s] \in {"fetch", "rugcheck", "notify"}
InFlight == Cardinality({s \in Sigs : InSlot(s)})

\* C1: at most MAX_CONCURRENT_POOLS process_pool_async tasks are inside the
\* concurrency slot at any time, and the free slots are exactly the ones not
\* taken, so a task that is ready while all slots are taken stays waiting.
C1_InFlightBounded ==
    /\ InFlight <= MAX_CONCURRENT_POOLS
    /\ semaphore = MAX_CONCURRENT_POOLS - InFlight

C1_Witness ==
    /\ InFlight = MAX_CONCURRENT_POOLS
    /\ \E s \in Sigs : tasks[s] = "waiting"

RECURSIVE Count(_, _)
Count(q, x) ==
    IF q = <<>> THEN 0
    ELSE (IF Head(q) = x THEN 1 ELSE 0) + Count(Tail(q), x)

\* number of places a signature is held in between detection and task creation
Places(s) ==
    (IF pending = s THEN 1 ELSE 0) + Count(pool_queue, s)
        + (IF tasks[s] # "none" THEN 1 ELSE 0)

QueueConservation ==
    /\ Len(pool_queue) <= QueueMaxsize
    /\ variant = "optimized" =>
          \A s \in Sigs : Places(s) = IF s <= nextSig THEN 1 ELSE 0

\* C2: the queue never holds more than its capacity; every detected pool
\* signature is held exactly once (by the blocked producer, in the queue, or
\* by the task created for it), so none is dropped or duplicated; and every
\* detected signature is eventually dequeued.
C2_QueueBoundedNoLoss ==
    /\ []QueueConservation
    /\ \A s \in Sigs :
          (variant = "optimized" /\ s <= nextSig) ~> (tasks[s] # "none")

C2_Witness ==
    /\ wpc = "put"
    /\ Len(pool_queue) = QueueMaxsize
    /\ pending = nextSig

\* C5: the wait after the k-th consecutive connection failure is
\* min(floor * 2^(k-1), 60): it never decreases from one consecutive failure
\* to the next and never exceeds 60.
C5_BackoffSchedule ==
    lastWait.k >= 1 =>
        lastWait.secs = Min(Floor * Pow2(lastWait.k - 1), max_backoff)

\* C6 as amended: the backoff is reset to its floor as soon as the
\* subscription request has been sent; a wait that follows the failure of a
\* subscribed connection is the floor, whether or not a message was received.
C6_ResetOnSubscribe ==
    /\ lastWait.afterSub => lastWait.secs = Floor
    /\ (variant = "optimized" /\ wpc \in {"listen", "put"}) =>
          backoff_time = OptInitialBackoff

C6_Witness ==
    /\ lastWait.afterSub
    /\ ~lastWait.gotMessage
    /\ lastWait.prior >= 2
    /\ lastWait.secs = Floor

\* C6 as claimed: a connection that fails before any message is received does
\* not reset the backoff, so the wait after it continues the doubling.
C6_NoResetBeforeMessage ==
    (lastWait.afterSub /\ ~lastWait.gotMessage) =>
        lastWait.secs = Min(Floor * Pow2(lastWait.prior), max_backoff)

\* positions of the reader at which it reads from, or has read from, the
\* current connection
ReadingPcs == {"listen", "put", "recv", "fetch", "evaluate", "persist_valid",
               "persist_rejected", "notify"}

\* C7: no connection is read from before the logsSubscribe request was sent
\* on that same connection.
C7_SubscribedBeforeRead ==
    (conn.gotMessage \/ wpc \in ReadingPcs) => conn.subscribed

C7_Witness ==
    /\ conn.gotMessage
    /\ conn.subscribed
    /\ lastWait.secs > 0

\* C8: once websocket_connection has exhausted its retry budget the monitor
\* has terminated with the error; it starts no fresh round of attempts.
C8_ExhaustedIsFatal == exhausted => wpc = "failed"

\* C9: the stream-reading loop makes no external call: it is never inside the
\* transaction fetch, the risk evaluation or the notification.
C9_ReaderMakesNoExternalCall ==
    wpc \notin {"fetch", "evaluate", "notify"}
(***************************************************************************)
(* Persistence store: save_token_to_file (src/ILove.py)                    *)
(*                                                                         *)
(* Called by the monitor thread (process_new_pool) and by the two workers  *)
(* of run_boosted_tokens_check's ThreadPoolExecutor, with no lock.  A call *)
(* is four steps: entry, the read of the file, the membership test with    *)
(* open(filename, 'w') (which truncates the file), and json.dump.          *)
(***************************************************************************)
\* number of distinct identifiers
MaxTokens == 2
\* number of save_token_to_file calls in one behaviour
MaxSaves == 3

Tokens == 1..MaxTokens

Range(q) == {q[i] : i \in 1..Len(q)}

\* what a store file can hold when the program starts
InitialContents ==
    {[kind |-> k, toks |-> <<>>] :
        k \in {"missing", "empty", "corrupt", "notlist", "list"}}
    \cup {[kind |-> "list", toks |-> <<tok>>] : tok \in Tokens}

InitStore ==
    /\ files \in [FileNames -> InitialContents]
    /\ sv = [t \in Threads |-> IdleSaver]
    /\ saved = {}
    /\ nSaves = 0

\* existing_tokens after the read: os.path.exists, getsize > 0, json.load,
\* isinstance(.., list), except json.JSONDecodeError
LoadTokens(content) ==
    IF content.kind = "list" THEN content.toks ELSE <<>>

\* def save_token_to_file(token_address, filename): existing_tokens = []
save_token_to_file_Call(t, tok, f) ==
    /\ sv[t].pc = "idle"
    /\ nSaves < MaxSaves
    /\ nSaves' = nSaves + 1
    /\ sv' = [sv EXCEPT ![t] = [pc |-> "load", tok |-> tok, file |-> f,
                                 existing |-> <<>>, before |-> files[f]]]
    /\ UNCHANGED <<files, saved>>
    /\ UNCHANGED <<streamVars, limiterVars, evalVars, validatorVars, pipeVars, auxVars>>

\* mutant: json.JSONDecodeError is not caught next to json.load; the outer
\* `except Exception` logs the error and the call returns without writing
save_token_to_file_Load_DecodeErrorEscapes(t) ==
    /\ sv[t].pc = "load"
    /\ IF files[sv[t].file].kind = "corrupt"
       THEN sv' = [sv EXCEPT ![t] = IdleSaver]
       ELSE sv' = [sv EXCEPT ![t].existing = LoadTokens(files[sv[t].file]),
                             ![t].pc = "check"]
    /\ UNCHANGED <<files, saved, nSaves>>
    /\ UNCHANGED <<streamVars, limiterVars, evalVars, validatorVars, pipeVars, auxVars>>

\* with open(filename, 'r') as f: existing_tokens = json.load(f)
save_token_to_file_Load(t) ==
    /\ sv[t].pc = "load"
    /\ sv' = [sv EXCEPT ![t].existing = LoadTokens(files[sv[t].file]),
                        ![t].pc = "check"]
    /\ UNCHANGED <<files, saved, nSaves>>
    /\ UNCHANGED <<streamVars, limiterVars, evalVars, validatorVars, pipeVars, auxVars>>

\* mutant: the `if token_address not in existing_tokens` test is missing
save_token_to_file_Check_NoMembershipTest(t) ==
    /\ sv[t].pc = "check"
    /\ sv' = [sv EXCEPT ![t].existing = Append(sv[t].existing, sv[t].tok),
                        ![t].pc = "dump"]
    /\ files' = [files EXCEPT ![sv[t].file] = [kind |-> "empty", toks |-> <<>>]]
    /\ UNCHANGED <<saved, nSaves>>
    /\ UNCHANGED <<streamVars, limiterVars, evalVars, validatorVars, pipeVars, auxVars>>

\* if token_address not in existing_tokens: append; open(filename, 'w')
save_token_to_file_Check(t) ==
    /\ sv[t].pc = "check"
    /\ IF sv[t].tok \in Range(sv[t].existing)
       THEN /\ sv' = [sv EXCEPT ![t] = IdleSaver]
            /\ saved' = saved \cup {<<sv[t].tok, sv[t].file>>}
            /\ UNCHANGED files
       ELSE /\ sv' = [sv EXCEPT ![t].existing = Append(sv[t].existing, sv[t].tok),
                                ![t].pc = "dump"]
            /\ files' = [files EXCEPT ![sv[t].file] =
                            [kind |-> "empty", toks |-> <<>>]]
            /\ UNCHANGED saved
    /\ UNCHANGED nSaves
    /\ UNCHANGED <<streamVars, limiterVars, evalVars, validatorVars, pipeVars, auxVars>>

\* mutant: only the new identifier is written
save_token_to_file_Dump_OnlyNew(t) ==
    /\ sv[t].pc = "dump"
    /\ files' = [files EXCEPT ![sv[t].file] =
                    [kind |-> "list", toks |-> <<sv[t].tok>>]]
    /\ saved' = saved \cup {<<sv[t].tok, sv[t].file>>}
    /\ sv' = [sv EXCEPT ![t] = IdleSaver]
    /\ UNCHANGED nSaves
    /\ UNCHANGED <<streamVars, limiterVars, evalVars, validatorVars, pipeVars, auxVars>>

\* json.dump(existing_tokens, f, indent=4); the file is closed; return
save_token_to_file_Dump(t) ==
    /\ sv[t].pc = "dump"
    /\ files' = [files EXCEPT ![sv[t].file] =
                    [kind |-> "list", toks |-> sv[t].existing]]
    /\ saved' = saved \cup {<<sv[t].tok, sv[t].file>>}
    /\ sv' = [sv EXCEPT ![t] = IdleSaver]
    /\ UNCHANGED nSaves
    /\ UNCHANGED <<streamVars, limiterVars, evalVars, validatorVars, pipeVars, auxVars>>

InitStoreSpec ==
    StreamIdle /\ InitStore /\ LimiterIdle /\ EvalIdle /\ ValidatorIdle /\ PipeIdle
    /\ AuxIdle

NextStore ==
    \/ \E t \in Threads, tok \in Tokens, f \in FileNames :
          save_token_to_file_Call(t, tok, f)
    \/ \E t \in Threads : save_token_to_file_Load(t)
    \/ \E t \in Threads : save_token_to_file_Check(t)
    \/ \E t \in Threads : save_token_to_file_Dump(t)

SpecStore == InitStoreSpec /\ [][NextStore]_vars

\* a restart of the process between two saves; main: for each store file,
\* `if not os.path.exists(filename): json.dump([], f, indent=4)`
main_CreateMissingFiles ==
    /\ \A u \in Threads : sv[u].pc = "idle"
    /\ files' = [f \in FileNames |->
                    IF files[f].kind = "missing"
                    THEN [kind |-> "list", toks |-> <<>>] ELSE files[f]]
    /\ UNCHANGED <<sv, saved, nSaves>>
    /\ UNCHANGED <<streamVars, limiterVars, evalVars, validatorVars, pipeVars, auxVars>>

\* the calls do not overlap: one thread, or callers that happen not to meet
NextStoreSeq ==
    \/ \E t \in Threads, tok \in Tokens, f \in FileNames :
          /\ \A u \in Threads : sv[u].pc = "idle"
          /\ save_token_to_file_Call(t, tok, f)
    \/ \E t \in Threads : save_token_to_file_Load(t)
    \/ \E t \in Threads : save_token_to_file_Check(t)
    \/ \E t \in Threads : save_token_to_file_Dump(t)
    \/ main_CreateMissingFiles

SpecStoreSeq == InitStoreSpec /\ [][NextStoreSeq]_vars

\* thread t returns from save_token_to_file in this step
Returns(t) == sv[t].pc # "idle" /\ sv'[t].pc = "idle"

\* C16: a save_token_to_file(t, F) call made when t is already in F returns
\* with the content of F unchanged; so saving the same identifier twice in a
\* row leaves what saving it once leaves.
C16_SaveIdempotent ==
    [][\A t \in Threads :
          (/\ Returns(t)
           /\ sv[t].before.kind = "list"
           /\ sv[t].tok \in Range(sv[t].before.toks))
              => files'[sv[t].file] = sv[t].before]_vars

C16_Witness ==
    /\ \A t \in Threads : sv[t].pc = "idle"
    /\ nSaves = 2
    /\ saved = {<<1, "valid_tokens.json">>}
    /\ files["valid_tokens.json"] = [kind |-> "list", toks |-> <<1>>]

\* what a store file holds when it is missing, empty, not JSON, or not a list
Unusable == {"missing", "empty", "corrupt", "notlist"}

\* C18: a save_token_to_file call that finds the store file missing, empty,
\* syntactically corrupted or holding something other than a list does not
\* fail: when it returns, the file is a well-formed list that contains
\* exactly the saved identifier.
C18_UnusableFileIsEmptySet ==
    [][\A t \in Threads :
          (Returns(t) /\ sv[t].before.kind \in Unusable)
              => files'[sv[t].file] = [kind |-> "list", toks |-> <<sv[t].tok>>]]_vars

C18_Witness ==
    \E t \in Threads :
        /\ sv[t].pc = "dump"
        /\ sv[t].before.kind = "corrupt"
        /\ sv[t].existing = <<sv[t].tok>>
        /\ files[sv[t].file].kind = "empty"

\* C3: whatever the interleaving of concurrent save_token_to_file calls, once
\* they have all returned the file contains every identifier that any of them
\* saved (no lost update).
C3_NoLostUpdate ==
    (\A t \in Threads : sv[t].pc = "idle") =>
        \A p \in saved :
            /\ files[p[2]].kind = "list"
            /\ p[1] \in Range(files[p[2]].toks)

(***************************************************************************)
(* RateLimiter (src/ILove_optimized.py)                                    *)
(*                                                                         *)
(* Time is a clock of ticks, TicksPerSecond to the second.  acquire() runs *)
(* without suspension up to its asyncio.sleep, and from the wake-up to its *)
(* end.  A sleeper is woken as soon as its delay has passed: the clock     *)
(* does not advance past a due wake-up.                                    *)
(***************************************************************************)
\* resolution of the clock
TicksPerSecond == 4
\* last tick of the clock
MaxTime == 9
\* RateLimiter(calls_per_second), 100 and 30 in the source, scaled down
calls_per_second == 2
\* number of acquire() calls in one behaviour
MaxAcquires == 5

Sleeping == {w \in LimWorkers : lw[w].pc = "sleeping"}

\* self.calls = [call_time for call_time in self.calls if now - call_time < 1.0]
Pruned(q, t) == SelectSeq(q, LAMBDA c : t - c < TicksPerSecond)

\* acquire(): from the call to the sleep, or to the end when there is none
RateLimiter_acquire_Enter(w) ==
    /\ lw[w].pc = "idle"
    /\ Len(granted) + Cardinality(Sleeping) < MaxAcquires
    /\ LET kept == Pruned(calls, now)
           full == Len(kept) >= calls_per_second
           sleep_time == IF full THEN TicksPerSecond - (now - kept[1]) ELSE 0
       IN  IF full /\ sleep_time > 0
           THEN /\ calls' = kept
                /\ lw' = [lw EXCEPT ![w] = [pc |-> "sleeping", now0 |-> now,
                                            wake |-> now + sleep_time]]
                /\ UNCHANGED granted
           ELSE /\ calls' = Append(kept, now)
                /\ granted' = Append(granted, now)
                /\ UNCHANGED lw
    /\ UNCHANGED now
    /\ UNCHANGED <<streamVars, storeVars, evalVars, validatorVars, pipeVars, auxVars>>

\* acquire(): after `await asyncio.sleep(sleep_time)`: self.calls.append(now)
RateLimiter_acquire_Wake(w) ==
    /\ lw[w].pc = "sleeping"
    /\ now >= lw[w].wake
    /\ calls' = Append(calls, lw[w].now0)
    /\ granted' = Append(granted, now)
    /\ lw' = [lw EXCEPT ![w] = IdleLimWorker]
    /\ UNCHANGED now
    /\ UNCHANGED <<streamVars, storeVars, evalVars, validatorVars, pipeVars, auxVars>>

\* time passes
Tick ==
    /\ now < MaxTime
    /\ \A w \in Sleeping : lw[w].wake > now
    /\ now' = now + 1
    /\ UNCHANGED <<calls, lw, granted>>
    /\ UNCHANGED <<streamVars, storeVars, evalVars, validatorVars, pipeVars, auxVars>>

InitLimiterSpec ==
    StreamIdle /\ StoreIdle /\ LimiterIdle /\ EvalIdle /\ ValidatorIdle /\ PipeIdle
    /\ AuxIdle

NextLimiter ==
    \/ \E w \in LimWorkers : RateLimiter_acquire_Enter(w)
    \/ \E w \in LimWorkers : RateLimiter_acquire_Wake(w)
    \/ Tick

SpecLimiter == InitLimiterSpec /\ [][NextLimiter]_vars

\* C4: no window of one second contains more than calls_per_second completed
\* acquire() calls: the completion that comes calls_per_second places after
\* another one is at least a full second later.
C4_RateBounded ==
    \A i \in 1..(Len(granted) - calls_per_second) :
        granted[i + calls_per_second] - granted[i] >= TicksPerSecond

(***************************************************************************)
(* Risk evaluator: perform_rug_check (src/ILove.py)                        *)
(*                                                                         *)
(* One action per call of the function and per iteration of its retry      *)
(* loop.  The remote service's answer to an attempt is drawn from          *)
(* Outcomes: an exception of one of the three handled classes, a falsy     *)
(* result, or a response object.                                           *)
(***************************************************************************)
\* perform_rug_check(token_address, config, max_retries=3)
max_retries == 3
\* rugcheck_config defaults
max_top_holders_percentage == 70
risk_score_threshold == 40

AuthorityValues == {"absent", "none", "disabled", "enabled"}

HolderValues ==
    {NoHolders}
    \cup {[shape |-> "dict", totalPercentage |-> p, holders |-> <<>>] :
            p \in {50, 85}}
    \cup {[shape |-> "dict_non_numeric", totalPercentage |-> 0, holders |-> <<>>]}
    \cup {[shape |-> "list", totalPercentage |-> 0, holders |-> h] :
            h \in {<<>>, <<50>>, <<50, 35>>}}

ScoreValues == {NoScore} \cup {[has |-> TRUE, value |-> v] : v \in {30, 90}}

Responses ==
    [data : {TRUE}, mintAuthority : AuthorityValues,
     freezeAuthority : AuthorityValues, topHolders : HolderValues,
     score : ScoreValues]

Configs ==
    [check_mint_authority : BOOLEAN, check_freeze_authority : BOOLEAN,
     check_top_holders : BOOLEAN]

RECURSIVE SumSeq(_)
SumSeq(q) == IF q = <<>> THEN 0 ELSE Head(q) + SumSeq(Tail(q))

\* hasattr(rc, a) and rc.a and rc.a != 'disabled'
AuthorityEnabled(a) == a \notin {"absent", "none", "disabled"}

\* top_holders_percentage: float(totalPercentage) of a dict, or the sum of
\* float(holder['percentage']) over a list
top_holders_percentage(h) ==
    CASE h.shape = "dict" -> h.totalPercentage
      [] h.shape = "list" -> SumSeq(h.holders)
      [] OTHER -> 0

\* str() of a float with an integral value, as an f-string prints it
PyFloatStr(n) == ToString(n) \o ".0"

MintReason(rc) == "Mint authority enabled (" \o rc.mintAuthority \o ")"
FreezeReason(rc) == "Freeze authority enabled (" \o rc.freezeAuthority \o ")"
TopHoldersReason(rc) ==
    "Top holders control too much ("
        \o PyFloatStr(top_holders_percentage(rc.topHolders)) \o "% > "
        \o ToString(max_top_holders_percentage) \o "%)"
ScoreReason(rc) ==
    "Risk score too high (" \o ToString(rc.score.value) \o " > "
        \o ToString(risk_score_threshold) \o ")"

\* mutant: the mint authority is tested whatever check_mint_authority says
MintStep_FlagIgnored(rc, cfg) ==
    IF AuthorityEnabled(rc.mintAuthority)
    THEN <<MintReason(rc)>> ELSE <<>>

\* the criteria block of one attempt (lines 244-273), statement by statement:
\* the reasons it appends, and whether it raised before its end
MintStep(rc, cfg) ==
    IF cfg.check_mint_authority /\ AuthorityEnabled(rc.mintAuthority)
    THEN <<MintReason(rc)>> ELSE <<>>

FreezeStep(rc, cfg) ==
    IF cfg.check_freeze_authority /\ AuthorityEnabled(rc.freezeAuthority)
    THEN <<FreezeReason(rc)>> ELSE <<>>

TopHoldersRaises(rc, cfg) ==
    cfg.check_top_holders /\ rc.topHolders.shape = "dict_non_numeric"

TopHoldersStep(rc, cfg) ==
    IF /\ cfg.check_top_holders
       /\ top_holders_percentage(rc.topHolders) > max_top_holders_percentage
    THEN <<TopHoldersReason(rc)>> ELSE <<>>

ScoreStep(rc, cfg) ==
    IF rc.score.has /\ rc.score.value > risk_score_threshold
    THEN <<ScoreReason(rc)>> ELSE <<>>

CheckCriteria(rc, cfg) ==
    IF TopHoldersRaises(rc, cfg)
    THEN [raised |-> TRUE, appended |-> MintStep(rc, cfg) \o FreezeStep(rc, cfg)]
    ELSE [raised |-> FALSE,
          appended |-> MintStep(rc, cfg) \o FreezeStep(rc, cfg)
                          \o TopHoldersStep(rc, cfg) \o ScoreStep(rc, cfg)]

\* the reason an except clause appends on the last attempt
HandlerReason(e) ==
    CASE e = "JSONDecodeError" -> "Rugcheck service returned invalid data"
      [] e = "RequestException" -> "Network error during rugcheck"
      [] OTHER -> "Unexpected rugcheck error"

Return(passed, reasons, rc, fromData) ==
    [ev EXCEPT !.pc = "returned", !.passed = passed, !.reasons = reasons,
               !.failure_reasons = reasons, !.rc_result = rc,
               !.fromData = fromData]

\* `continue`, or the return below the loop after the last iteration
Continue(reasons, rc, n) ==
    IF ev.attempt + 1 < max_retries
    THEN [ev EXCEPT !.attempt = ev.attempt + 1, !.failure_reasons = reasons,
                    !.rc_result = rc, !.nCalls = n]
    ELSE [Return(FALSE, reasons, rc, FALSE) EXCEPT !.nCalls = n]

\* mutant: an except clause that appends nothing on the last attempt either
Handle_NoFinalReason(e, reasons, rc, n) ==
    Continue(reasons, rc, n)

\* an except clause of the loop
Handle(e, reasons, rc, n) ==
    Continue(IF ev.attempt = max_retries - 1
             THEN Append(reasons, HandlerReason(e)) ELSE reasons, rc, n)

\* entry: the address check before the loop
perform_rug_check_Call ==
    /\ ev.pc = "idle"
    /\ \E valid \in BOOLEAN :
          ev' = [(IF valid
                  THEN [ev EXCEPT !.pc = "loop"]
                  ELSE Return(FALSE, <<"Invalid token address format">>,
                              NoResponse, FALSE))
                    EXCEPT !.impl = "perform_rug_check"]
    /\ UNCHANGED config
    /\ UNCHANGED <<streamVars, storeVars, limiterVars, validatorVars,
                   pipeVars, auxVars>>

\* time.sleep(0.5 * (attempt + 1)); rc = rugcheck(token_address): the delay
\* taken before the call, in half seconds, and whether the call follows an
\* attempt that had obtained a response with data
Called(r, gotData) ==
    [r EXCEPT !.sleeps = Append(ev.sleeps, ev.attempt + 1),
              !.calledAfterData = ev.calledAfterData \/ ev.dataSeen,
              !.dataSeen = ev.dataSeen \/ gotData]

\* one iteration of `for attempt in range(max_retries)`
perform_rug_check_Attempt ==
    /\ ev.pc = "loop"
    /\ LET n == ev.nCalls + 1 IN
       \/ \E e \in {"JSONDecodeError", "RequestException", "Exception"} :
             ev' = Called(Handle(e, ev.failure_reasons, ev.rc_result, n), FALSE)
       \/ ev' = Called(Continue(Append(ev.failure_reasons,
                                       "Rugcheck returned no data"),
                                NoResponse, n), FALSE)
       \/ \E rc \in Responses :
             LET c == CheckCriteria(rc, config)
                 reasons == ev.failure_reasons \o c.appended
             IN  ev' = Called(IF c.raised
                              THEN Handle("Exception", reasons, rc, n)
                              ELSE IF reasons # <<>>
                              THEN [Return(FALSE, reasons, rc, TRUE)
                                        EXCEPT !.nCalls = n]
                              ELSE [Return(TRUE, <<>>, rc, TRUE)
                                        EXCEPT !.nCalls = n],
                              TRUE)
    /\ UNCHANGED config
    /\ UNCHANGED <<streamVars, storeVars, limiterVars, validatorVars,
                   pipeVars, auxVars>>

\* what `except Exception as e: logger.error(f"Rugcheck error: {e}")` logs
\* when `sum(holder['amount'] for holder in rc.topHolders)` raises: iterating
\* a dict yields its keys, and a string cannot be indexed by 'amount'
HoldersError(rc) ==
    IF rc.data /\ rc.topHolders.shape \in {"dict", "dict_non_numeric"}
    THEN <<"Rugcheck error: string indices must be integers">>
    ELSE IF rc.data /\ rc.topHolders.shape = "absent"
    THEN <<"Rugcheck error: no attribute 'topHolders'">>
    ELSE <<>>

\* perform_rugcheck_async (src/ILove_optimized.py): one rugcheck() call in the
\* executor, no delay and no retry; any exception, also one raised while the
\* holders, the score or the liquidity are read, gives None
perform_rugcheck_async ==
    /\ ev.pc = "idle"
    /\ \E rc \in Responses \cup {NoResponse} :
       \E complete \in BOOLEAN :
          ev' = [ev EXCEPT !.pc = "returned",
                           !.impl = "perform_rugcheck_async",
                           !.nCalls = 1,
                           !.sleeps = <<0>>,
                           !.dataSeen = rc.data,
                           !.rc_result = rc,
                           !.reasons = HoldersError(rc),
                           !.passed = /\ rc.data
                                      /\ rc.topHolders.shape = "list"
                                      /\ rc.score.has
                                      /\ complete]
    /\ UNCHANGED config
    /\ UNCHANGED <<streamVars, storeVars, limiterVars, validatorVars,
                   pipeVars, auxVars>>

InitEval ==
    /\ config \in Configs
    /\ ev = IdleEval

InitEvalSpec ==
    StreamIdle /\ StoreIdle /\ LimiterIdle /\ InitEval /\ ValidatorIdle /\ PipeIdle
    /\ AuxIdle

NextEval ==
    \/ perform_rug_check_Call
    \/ perform_rug_check_Attempt
    \/ perform_rugcheck_async

SpecEval == InitEvalSpec /\ [][NextEval]_vars

\* the criteria a response violates, each one on its own
MintViolated(rc) ==
    config.check_mint_authority /\ rc.mintAuthority = "enabled"
FreezeViolated(rc) ==
    config.check_freeze_authority /\ rc.freezeAuthority = "enabled"
TopHoldersViolated(rc) ==
    /\ config.check_top_holders
    /\ \/ rc.topHolders.shape = "dict"
          /\ rc.topHolders.totalPercentage > max_top_holders_percentage
       \/ rc.topHolders.shape = "list"
          /\ SumSeq(rc.topHolders.holders) > max_top_holders_percentage
ScoreViolated(rc) ==
    rc.score.has /\ rc.score.value > risk_score_threshold

ViolatedReasons(rc) ==
    (IF MintViolated(rc) THEN <<MintReason(rc)>> ELSE <<>>)
        \o (IF FreezeViolated(rc) THEN <<FreezeReason(rc)>> ELSE <<>>)
        \o (IF TopHoldersViolated(rc) THEN <<TopHoldersReason(rc)>> ELSE <<>>)
        \o (IF ScoreViolated(rc) THEN <<ScoreReason(rc)>> ELSE <<>>)

\* C10: an evaluation that returns on a response fails if and only if that
\* response violates at least one enabled criterion, and the reasons it
\* returns are exactly one reason per violated criterion, in the order mint
\* authority, freeze authority, top holders, risk score.
C10_FailsIffCriterionViolated ==
    (ev.pc = "returned" /\ ev.fromData) =>
        /\ ev.passed <=> (ViolatedReasons(ev.rc_result) = <<>>)
        /\ ev.reasons = ViolatedReasons(ev.rc_result)

\* Scenario B: the response {mintAuthority: "enabled", freezeAuthority:
\* "disabled", topHolders: {totalPercentage: 85}, score: 30}
ScenarioB ==
    [data |-> TRUE, mintAuthority |-> "enabled", freezeAuthority |-> "disabled",
     topHolders |-> [shape |-> "dict", totalPercentage |-> 85, holders |-> <<>>],
     score |-> [has |-> TRUE, value |-> 30]]

\* C11: with every criterion enabled and thresholds 70 and 40, an evaluation
\* whose first remote answer is the Scenario B response fails with exactly
\* the two reasons "Mint authority enabled (enabled)" and "Top holders
\* control too much (85% > 70%)", and with no score-based reason.
C11_ScenarioB ==
    (/\ ev.pc = "returned" /\ ev.fromData /\ ev.nCalls = 1
     /\ config = DefaultConfig /\ ev.rc_result = ScenarioB)
        => /\ ~ev.passed
           /\ Range(ev.reasons) =
                 {"Mint authority enabled (enabled)",
                  "Top holders control too much (85% > 70%)"}

\* C12: when an earlier attempt was transient (no data, or an exception) and
\* a later attempt returns a response that violates no enabled criterion, the
\* evaluation passes with an empty list of reasons.
C12_TransientNotReported ==
    (/\ ev.pc = "returned" /\ ev.fromData /\ ev.nCalls >= 2
     /\ ViolatedReasons(ev.rc_result) = <<>>)
        => /\ ev.passed
           /\ ev.reasons = <<>>

\* C13: one risk evaluation makes at most max_retries remote calls and then
\* returns; the delay before attempt i is 0.5 s * i (i half seconds); and no
\* remote call follows an attempt that obtained a response with data.
C13_BoundedLinearRetry ==
    /\ ev.nCalls <= max_retries
    /\ (ev.nCalls = max_retries => ev.pc = "returned")
    /\ \A i \in 1..Len(ev.sleeps) : ev.sleeps[i] = i
    /\ ~ev.calledAfterData

(***************************************************************************)
(* Address validator: is_valid_solana_address (both variants)              *)
(*                                                                         *)
(*   re.match(r'^[1-9A-HJ-NP-Za-km-z]{32,44}$', address)                   *)
(*                                                                         *)
(* A string is a sequence of one-character strings.  The match is computed *)
(* as the regular expression engine computes it: the character class is    *)
(* repeated 32 to 44 times from the start of the string, and `$` (without  *)
(* re.MULTILINE) matches at the end of the string and also just before a   *)
(* line break that is the last character of the string.                    *)
(***************************************************************************)
\* {32,44}
AddrMinLen == 32
AddrMaxLen == 44

\* [1-9A-HJ-NP-Za-km-z]
Base58 ==
    {"1", "2", "3", "4", "5", "6", "7", "8", "9"}
    \cup {"A", "B", "C", "D", "E", "F", "G", "H"}
    \cup {"J", "K", "L", "M", "N"}
    \cup {"P", "Q", "R", "S", "T", "U", "V", "W", "X", "Y", "Z"}
    \cup {"a", "b", "c", "d", "e", "f", "g", "h", "i", "j", "k"}
    \cup {"m", "n", "o", "p", "q", "r", "s", "t", "u", "v", "w", "x", "y", "z"}

\* number of leading characters of s that are in the character class
Run(s) ==
    CHOOSE k \in 0..Len(s) :
        /\ \A i \in 1..k : s[i] \in Base58
        /\ k = Len(s) \/ s[k + 1] \notin Base58

\* `$` at position p (p characters consumed)
DollarAt(s, p) ==
    \/ p = Len(s)
    \/ p = Len(s) - 1 /\ s[Len(s)] = "\n"

\* re.match(...) is not None / bool(re.match(...))
is_valid_solana_address(s) ==
    \E k \in AddrMinLen..Min(Run(s), AddrMaxLen) : DollarAt(s, k)

\* the string of n characters c
Rep(c, n) == [i \in 1..n |-> c]

\* characters the inputs are built from: the ends of the ranges of the class,
\* and characters outside it
SampleChars == {"1", "9", "A", "H", "J", "N", "P", "Z", "a", "k", "m", "z"}
OtherChars == {"0", "O", "I", "l", "\n", " ", "-"}
SampleLengths ==
    {0, 1, AddrMinLen - 1, AddrMinLen, AddrMinLen + 1,
     AddrMaxLen - 1, AddrMaxLen, AddrMaxLen + 1}
Suffixes ==
    {<<>>, <<"\n", "\n">>, <<"\n", "A">>} \cup {<<x>> : x \in OtherChars}
Addresses ==
    {Rep(c, n) \o s : c \in SampleChars, n \in SampleLengths, s \in Suffixes}
    \cup {Rep(c, 16) \o <<x>> \o Rep(c, 16) :
            c \in SampleChars, x \in OtherChars}

InitValidator ==
    /\ address \in Addresses
    /\ verdict = "none"

is_valid_solana_address_Call ==
    /\ verdict = "none"
    /\ verdict' = IF is_valid_solana_address(address) THEN "accept" ELSE "reject"
    /\ UNCHANGED address
    /\ UNCHANGED <<streamVars, storeVars, limiterVars, evalVars, pipeVars, auxVars>>

InitValidatorSpec ==
    StreamIdle /\ StoreIdle /\ LimiterIdle /\ EvalIdle /\ InitValidator /\ PipeIdle
    /\ AuxIdle

NextValidator == is_valid_solana_address_Call

SpecValidator == InitValidatorSpec /\ [][NextValidator]_vars

\* C15: the validator accepts a string if and only if its length is between
\* 32 and 44 and every one of its characters is in the address alphabet; a
\* valid address followed by an extra character, such as a line break, is
\* rejected.
C15_AcceptsIffWellFormed ==
    verdict # "none" =>
        (verdict = "accept" <=>
            /\ Len(address) \in AddrMinLen..AddrMaxLen
            /\ \A i \in 1..Len(address) : address[i] \in Base58)

(***************************************************************************)
(* The pipeline of one event                                               *)
(*                                                                         *)
(*   legacy     worker "stream" runs process_new_pool for a detected pool; *)
(*              workers "most_active" and "latest" run the loop body of    *)
(*              get_solana_token_addresses_most_active / _latest in the    *)
(*              two threads of run_boosted_tokens_check                    *)
(*   optimized  every worker is a process_pool_async task                  *)
(*                                                                         *)
(* perform_rug_check is taken as a whole here (SpecEval has its attempts); *)
(* save_token_to_file runs step by step, with the actions of SpecStore.    *)
(***************************************************************************)
\* number of pipelines started in one behaviour
MaxPipelines == 2

\* the text of candidate i: a well-formed address, one that is too short, or
\* a well-formed address followed by a line break
CandidateText(i) ==
    CASE i % 3 = 1 -> Rep("A", AddrMinLen)
      [] i % 3 = 2 -> Rep("A", AddrMinLen - 1)
      [] OTHER -> Rep("A", AddrMinLen) \o <<"\n">>

PathOf(t) ==
    IF pvariant = "optimized" THEN "process_pool_async"
    ELSE IF t = "stream" THEN "process_new_pool" ELSE "boosted"

Logged(t, steps) == pl[t].trace \o steps

InitPipe ==
    /\ pvariant \in {"optimized", "legacy"}
    /\ pl = [t \in Threads |-> IdlePipe]
    /\ remoteCalls = {}
    /\ nPipes = 0

\* a pool event reaches process_new_pool / process_pool_async, or the boosted
\* loop takes the next token_address of the API's list
Pipeline_Start(t) ==
    /\ pl[t].pc \in {"idle", "done"}
    /\ nPipes < MaxPipelines
    /\ nPipes' = nPipes + 1
    /\ IF PathOf(t) = "boosted"
       THEN \E c \in Tokens :
               pl' = [pl EXCEPT ![t] = [IdlePipe EXCEPT !.pc = "evaluate",
                                                        !.path = "boosted",
                                                        !.tok = c]]
       ELSE pl' = [pl EXCEPT ![t] = [IdlePipe EXCEPT !.pc = "resolve",
                                                     !.path = PathOf(t)]]
    /\ UNCHANGED <<pvariant, remoteCalls>>
    /\ UNCHANGED <<streamVars, storeVars, limiterVars, evalVars, validatorVars, auxVars>>

\* what the transaction-detail API does with the one request:
\*   ok_list    status 200, the body is a non-empty JSON list
\*   ok_empty   status 200, the body is an empty list or not a list
\*   bad_json   status 200, decoding the body raises
\*   status     a non-success status
\*   transport  the request raises (timeout, connection error)
ResolverOutcomes == {"ok_list", "ok_empty", "bad_json", "status", "transport"}

\* mutant: the request is repeated, up to three times, until it succeeds
fetch_transaction_details_Retrying(o) ==
    [requests |-> IF o \in {"ok_list", "ok_empty"} THEN 1 ELSE 3,
     result |-> IF o = "ok_list" THEN "details" ELSE "None",
     logs |-> IF o \in {"ok_list", "ok_empty"} THEN 0 ELSE 3,
     raised |-> FALSE]

\* fetch_transaction_details(signature): one requests.post inside the try;
\* raise_for_status, json() and the post itself raise into `except
\* Exception`, which logs an error and returns None
fetch_transaction_details(o) ==
    [requests |-> 1,
     result |-> IF o = "ok_list" THEN "details" ELSE "None",
     logs |-> IF o \in {"bad_json", "status", "transport"} THEN 1 ELSE 0,
     raised |-> FALSE]

\* fetch_transaction_details_async(session, signature): one session.post
\* inside the try; a status other than 200 logs a warning, an exception logs
\* an error, both fall through to `return None`
fetch_transaction_details_async(o) ==
    [requests |-> 1,
     result |-> IF o = "ok_list" THEN "details" ELSE "None",
     logs |-> CASE o = "status" -> 1
                [] o \in {"bad_json", "transport"} -> 1
                [] OTHER -> 0,
     raised |-> FALSE]

\* mutant: the pipeline goes on to the extractor whatever the resolver returned
Pipeline_Resolve_Proceeds(t) ==
    /\ pl[t].pc = "resolve"
    /\ \E o \in ResolverOutcomes :
          LET r == IF pl[t].path = "process_pool_async"
                   THEN fetch_transaction_details_async(o)
                   ELSE fetch_transaction_details(o)
          IN pl' = [pl EXCEPT ![t].pc = "extract",
                              ![t].lookup = o,
                              ![t].tx = r,
                              ![t].failureLogs = r.logs,
                              ![t].trace = Logged(t, <<"resolve">>)]
    /\ UNCHANGED <<pvariant, remoteCalls, nPipes>>
    /\ UNCHANGED <<streamVars, storeVars, limiterVars, evalVars, validatorVars, auxVars>>

\* `if tx_details := fetch_transaction_details(signature)` with its else
\* branch `logger.warning("Failed to fetch transaction details.")`;
\* `tx_details = await fetch_transaction_details_async(..)`, `if not
\* tx_details: logger.warning(..); return`
Pipeline_Resolve(t) ==
    /\ pl[t].pc = "resolve"
    /\ \E o \in ResolverOutcomes :
          LET r == IF pl[t].path = "process_pool_async"
                   THEN fetch_transaction_details_async(o)
                   ELSE fetch_transaction_details(o)
          IN pl' = [pl EXCEPT ![t].pc = IF r.result = "details"
                                        THEN "extract" ELSE "done",
                              ![t].lookup = o,
                              ![t].tx = r,
                              ![t].failureLogs =
                                  IF r.result = "details" THEN r.logs
                                  ELSE r.logs + 1,
                              ![t].trace = Logged(t, <<"resolve">>)]
    /\ UNCHANGED <<pvariant, remoteCalls, nPipes>>
    /\ UNCHANGED <<streamVars, storeVars, limiterVars, evalVars, validatorVars, auxVars>>

\* extract_token_address: the mint of the first qualifying transfer, or None
Pipeline_Extract(t) ==
    /\ pl[t].pc = "extract"
    /\ \/ pl' = [pl EXCEPT ![t].pc = "done",
                           ![t].trace = Logged(t, <<"extract">>)]
       \/ \E c \in Tokens :
             pl' = [pl EXCEPT ![t].pc = "validate", ![t].tok = c,
                              ![t].trace = Logged(t, <<"extract">>)]
    /\ UNCHANGED <<pvariant, remoteCalls, nPipes>>
    /\ UNCHANGED <<streamVars, storeVars, limiterVars, evalVars, validatorVars, auxVars>>

\* mutant: the candidate goes on without the is_valid_solana_address test
Pipeline_Validate_Skipped(t) ==
    /\ pl[t].pc = "validate"
    /\ pl' = [pl EXCEPT ![t].pc = "evaluate",
                        ![t].trace = Logged(t, <<"validate">>)]
    /\ UNCHANGED <<pvariant, remoteCalls, nPipes>>
    /\ UNCHANGED <<streamVars, storeVars, limiterVars, evalVars, validatorVars, auxVars>>

\* `if is_valid_solana_address(token_mint)` of process_new_pool;
\* `if is_valid_solana_address(mint): return mint` of the optimized
\* extract_token_address
Pipeline_Validate(t) ==
    /\ pl[t].pc = "validate"
    /\ pl' = [pl EXCEPT ![t].pc =
                            IF is_valid_solana_address(CandidateText(pl[t].tok))
                            THEN "evaluate" ELSE "done",
                        ![t].trace = Logged(t, <<"validate">>)]
    /\ UNCHANGED <<pvariant, remoteCalls, nPipes>>
    /\ UNCHANGED <<streamVars, storeVars, limiterVars, evalVars, validatorVars, auxVars>>

\* perform_rug_check(token, config): the address test at its entry, then the
\* attempts on the remote service; perform_rugcheck_async(token_mint): the
\* remote call, None on any failure
Pipeline_Evaluate(t) ==
    /\ pl[t].pc = "evaluate"
    /\ IF pl[t].path = "process_pool_async"
       THEN /\ remoteCalls' = remoteCalls \cup {pl[t].tok}
            /\ \E result \in BOOLEAN :
                  pl' = [pl EXCEPT ![t].pc = IF result THEN "notify" ELSE "done",
                                   ![t].evaluated = TRUE,
                                   ![t].passed = result,
                                   ![t].trace = Logged(t, <<"evaluate">>)]
       ELSE IF is_valid_solana_address(CandidateText(pl[t].tok))
       THEN /\ remoteCalls' = remoteCalls \cup {pl[t].tok}
            /\ \E is_valid \in BOOLEAN :
                  pl' = [pl EXCEPT ![t].pc = "persist",
                                   ![t].evaluated = TRUE,
                                   ![t].passed = is_valid,
                                   ![t].trace =
                                       Logged(t, <<"validate", "evaluate">>)]
       ELSE /\ pl' = [pl EXCEPT ![t].pc = "persist",
                                ![t].evaluated = TRUE,
                                ![t].passed = FALSE,
                                ![t].trace = Logged(t, <<"validate">>)]
            /\ UNCHANGED remoteCalls
    /\ UNCHANGED <<pvariant, nPipes>>
    /\ UNCHANGED <<streamVars, storeVars, limiterVars, evalVars, validatorVars, auxVars>>

\* the file the pipeline saves to at this point
TargetFile(t) ==
    IF pl[t].passed /\ ~pl[t].failedNotify
    THEN "valid_tokens.json" ELSE "unchecked_tokens.json"

\* save_token_to_file(token, VALID_TOKENS_FILE | UNCHECKED_TOKENS_FILE): entry
Pipeline_Persist(t) ==
    /\ pl[t].pc = "persist"
    /\ sv[t].pc = "idle"
    /\ sv' = [sv EXCEPT ![t] = [pc |-> "load", tok |-> pl[t].tok,
                                 file |-> TargetFile(t), existing |-> <<>>,
                                 before |-> files[TargetFile(t)]]]
    /\ nSaves' = nSaves + 1
    /\ pl' = [pl EXCEPT ![t].pc = "saving",
                        ![t].trace = Logged(t, <<"persist">>)]
    /\ UNCHANGED <<files, saved>>
    /\ UNCHANGED <<pvariant, remoteCalls, nPipes>>
    /\ UNCHANGED <<streamVars, limiterVars, evalVars, validatorVars, auxVars>>

\* save_token_to_file has returned: `if telegram_bot_token and
\* telegram_chat_id` after the save of a passed token, the end otherwise
Pipeline_Saved(t) ==
    /\ pl[t].pc = "saving"
    /\ sv[t].pc = "idle"
    /\ IF pl[t].passed /\ ~pl[t].failedNotify
       THEN \E telegram \in BOOLEAN :
               pl' = [pl EXCEPT ![t].pc = IF telegram THEN "notify" ELSE "done"]
       ELSE pl' = [pl EXCEPT ![t].pc = "done"]
    /\ UNCHANGED <<pvariant, remoteCalls, nPipes>>
    /\ UNCHANGED <<streamVars, storeVars, limiterVars, evalVars, validatorVars, auxVars>>

\* fetch_dexscreener_data, format_passcheck_message, send_telegram_message /
\* format_rugcheck_message, asyncio.gather(photo_task, message_task).
\* An exception is caught by the `except Exception` of process_new_pool,
\* which saves the token as rejected; by the handler of the boosted batch;
\* or by the handler of process_pool_async.
Pipeline_Notify(t) ==
    /\ pl[t].pc = "notify"
    /\ \E raised \in BOOLEAN :
          pl' = [pl EXCEPT ![t].pc = IF raised /\ pl[t].path = "process_new_pool"
                                     THEN "persist" ELSE "done",
                           ![t].failedNotify = raised,
                           ![t].trace = Logged(t, <<"notify">>)]
    /\ UNCHANGED <<pvariant, remoteCalls, nPipes>>
    /\ UNCHANGED <<streamVars, storeVars, limiterVars, evalVars, validatorVars, auxVars>>

InitPipelineSpec ==
    /\ StreamIdle /\ StoreIdle /\ LimiterIdle /\ EvalIdle /\ ValidatorIdle
    /\ InitPipe
    /\ AuxIdle

NextPipeline ==
    \/ \E t \in Threads : Pipeline_Start(t)
    \/ \E t \in Threads : Pipeline_Resolve(t)
    \/ \E t \in Threads : Pipeline_Extract(t)
    \/ \E t \in Threads : Pipeline_Validate(t)
    \/ \E t \in Threads : Pipeline_Evaluate(t)
    \/ \E t \in Threads : Pipeline_Persist(t)
    \/ \E t \in Threads : save_token_to_file_Load(t)
    \/ \E t \in Threads : save_token_to_file_Check(t)
    \/ \E t \in Threads : save_token_to_file_Dump(t)
    \/ \E t \in Threads : Pipeline_Saved(t)
    \/ \E t \in Threads : Pipeline_Notify(t)

SpecPipeline == InitPipelineSpec /\ [][NextPipeline]_vars

\* C14: the rug-risk service is called only for identifiers that have passed
\* is_valid_solana_address, on every entry path; an identifier that fails
\* the validator causes no remote call.
C14_ValidatedBeforeRemoteCall ==
    \A c \in remoteCalls : is_valid_solana_address(CandidateText(c))

C14_Witness ==
    /\ remoteCalls # {}
    /\ \E t \in Threads :
          /\ pl[t].pc = "done"
          /\ pl[t].tok \in Tokens
          /\ ~is_valid_solana_address(CandidateText(pl[t].tok))
          /\ pl[t].trace # <<>>

\* the identifiers a store file holds
Stored(f) == Range(LoadTokens(files[f]))

\* C17: no identifier is in both valid_tokens.json and unchecked_tokens.json.
C17_StoresDisjoint ==
    Stored("valid_tokens.json") \cap Stored("unchecked_tokens.json") = {}

\* C19: a candidate that reached risk evaluation is, at the end of its
\* pipeline, recorded in the store: in the validated set if the evaluation
\* passed, in the rejected set if it failed.
C19_EvaluatedIsRecorded ==
    \A t \in Threads :
        (pl[t].pc = "done" /\ pl[t].evaluated) =>
            pl[t].tok \in Stored(IF pl[t].passed THEN "valid_tokens.json"
                                 ELSE "unchecked_tokens.json")

\* position of a step in resolve, extract, validate, evaluate, persist, notify
StepRank(s) ==
    CASE s = "resolve" -> 1
      [] s = "extract" -> 2
      [] s = "validate" -> 3
      [] s = "evaluate" -> 4
      [] s = "persist" -> 5
      [] OTHER -> 6

\* C20: the steps of one pipeline are taken in the order resolve, extract,
\* validate, evaluate, persist, notify, and a notification is sent only
\* after the identifier has been written to the store.
C20_StepsInOrder ==
    \A t \in Threads :
        LET tr == pl[t].trace IN
        /\ \A i \in 1..(Len(tr) - 1) : StepRank(tr[i]) <= StepRank(tr[i + 1])
        /\ \A i \in 1..Len(tr) :
              tr[i] = "notify" => \E j \in 1..(i - 1) : tr[j] = "persist"

\* the resolver failed for the event of worker t
ResolverFailed(t) == pl[t].lookup \in {"status", "transport"}

\* the event of worker t has gone no further than the resolver
Discarded(t) ==
    /\ pl[t].pc = "done"
    /\ pl[t].trace = <<"resolve">>
    /\ ~pl[t].evaluated
    /\ pl[t].tok \notin remoteCalls
    /\ sv[t].pc = "idle"
    /\ \A x \in saved : x[1] # pl[t].tok

\* C21 as claimed: when the Transaction Resolver fails for an event, the
\* event is discarded with a single logged failure, without any evaluation,
\* store write or notification.
C21_FailedLookupOneLog ==
    \A t \in Threads :
        ResolverFailed(t) => (Discarded(t) /\ pl[t].failureLogs = 1)

\* C21: when the Transaction Resolver fails for an event (non-success status
\* or transport error), the event is discarded with two log records, the
\* failure logged by the resolver and the warning logged by its caller; the
\* Risk Evaluator is invoked zero times for it, nothing is added to either
\* store set and no notification is sent.
C21_FailedLookupDiscards ==
    \A t \in Threads :
        ResolverFailed(t) => (Discarded(t) /\ pl[t].failureLogs = 2)

C21_Witness ==
    \E t \in Threads :
        /\ ResolverFailed(t)
        /\ pl[t].pc = "done"
        /\ \E u \in Threads \ {t} : pl[u].evaluated

\* C22: each invocation of the Transaction Resolver issues exactly one
\* request to the transaction-detail API; on a non-success status or a
\* transport error it returns None without a second request, and it never
\* raises to its caller.
C22_OneRequestNoRaise ==
    \A t \in Threads :
        pl[t].lookup # "none" =>
            /\ pl[t].tx.requests = 1
            /\ ~pl[t].tx.raised
            /\ ResolverFailed(t) => pl[t].tx.result = "None"

C22_Witness ==
    /\ \E t \in Threads : ResolverFailed(t) /\ pl[t].tx.requests = 1
    /\ \E t \in Threads : pl[t].lookup = "ok_list" /\ pl[t].tx.result = "details"

(***************************************************************************)
(* Dispatch of one logsNotification                                        *)
(*                                                                         *)
(*   legacy     run_websocket_monitoring: `for program in active_programs`,*)
(*              process_new_pool and its resolver call run inline          *)
(*   optimized  maintain_websocket_connection tests the one marker and     *)
(*              puts the signature; process_pool_async calls the resolver  *)
(*                                                                         *)
(* event.ids and event.markers are the programs whose program id and whose *)
(* instruction marker occur in some log line of the message.               *)
(***************************************************************************)
\* get_active_programs: Raydium first, then Pump.fun
Programs == <<"raydium", "pump_fun">>
ProgramSet == {Programs[k] : k \in 1..Len(Programs)}

\* the non-empty lists get_active_programs can return
ActiveLists == {<<"raydium">>, <<"pump_fun">>, <<"raydium", "pump_fun">>}

Events == [ids : SUBSET ProgramSet, markers : SUBSET ProgramSet]

InitDispatch ==
    /\ event \in Events
    /\ \E v \in {"optimized", "legacy"} :
       \E a \in ActiveLists :
          /\ v = "optimized" => a = <<"raydium">>
          /\ dispatch = [pc |-> "loop", impl |-> v, active_programs |-> a,
                         i |-> 1, calls |-> <<>>]

\* `any(program_id in log for log in logs) and any(instruction in log ..)`
Matches(program) == program \in event.ids /\ program \in event.markers

\* mutant: the loop goes on to the next program after a handled match
run_websocket_monitoring_Dispatch_NoBreak ==
    /\ dispatch.pc = "loop"
    /\ dispatch.impl = "legacy"
    /\ LET d == dispatch IN
       IF d.i > Len(d.active_programs)
       THEN dispatch' = [d EXCEPT !.pc = "done"]
       ELSE IF Matches(d.active_programs[d.i])
       THEN dispatch' = [d EXCEPT !.i = d.i + 1,
                                  !.calls = Append(d.calls, d.active_programs[d.i])]
       ELSE dispatch' = [d EXCEPT !.i = d.i + 1]
    /\ UNCHANGED event
    /\ UNCHANGED <<extractVars, holderVars, deliveryVars, shutdownVars, labelVars>>
    /\ UNCHANGED <<streamVars, storeVars, limiterVars, evalVars, validatorVars, pipeVars,
                   readerVars>>

\* one iteration of `for program in active_programs`: on a match,
\* process_new_pool(signature, logs, program, config), whose first step is
\* the resolver call, then `break`
run_websocket_monitoring_Dispatch ==
    /\ dispatch.pc = "loop"
    /\ dispatch.impl = "legacy"
    /\ LET d == dispatch IN
       IF d.i > Len(d.active_programs)
       THEN dispatch' = [d EXCEPT !.pc = "done"]
       ELSE IF Matches(d.active_programs[d.i])
       THEN dispatch' = [d EXCEPT !.pc = "done",
                                  !.calls = Append(d.calls, d.active_programs[d.i])]
       ELSE dispatch' = [d EXCEPT !.i = d.i + 1]
    /\ UNCHANGED event
    /\ UNCHANGED <<extractVars, holderVars, deliveryVars, shutdownVars, labelVars>>
    /\ UNCHANGED <<streamVars, storeVars, limiterVars, evalVars, validatorVars, pipeVars,
                   readerVars>>

\* `if any("initialize2: InitializeInstruction2" in log for log in logs):
\* await pool_queue.put(signature)`
maintain_websocket_connection_Detect ==
    /\ dispatch.pc = "loop"
    /\ dispatch.impl = "optimized"
    /\ dispatch' = [dispatch EXCEPT !.pc = IF "raydium" \in event.markers
                                          THEN "queued" ELSE "done"]
    /\ UNCHANGED event
    /\ UNCHANGED <<extractVars, holderVars, deliveryVars, shutdownVars, labelVars>>
    /\ UNCHANGED <<streamVars, storeVars, limiterVars, evalVars, validatorVars, pipeVars,
                   readerVars>>

\* pool_processor takes the signature and starts process_pool_async, which
\* calls fetch_transaction_details_async once
process_pool_async_Resolve ==
    /\ dispatch.pc = "queued"
    /\ dispatch' = [dispatch EXCEPT !.pc = "done",
                                    !.calls = Append(dispatch.calls, "raydium")]
    /\ UNCHANGED event
    /\ UNCHANGED <<extractVars, holderVars, deliveryVars, shutdownVars, labelVars>>
    /\ UNCHANGED <<streamVars, storeVars, limiterVars, evalVars, validatorVars, pipeVars,
                   readerVars>>

InitDispatchSpec ==
    /\ StreamIdle /\ StoreIdle /\ LimiterIdle /\ EvalIdle /\ ValidatorIdle
    /\ PipeIdle
    /\ InitDispatch
    /\ ExtractIdle /\ HolderIdle /\ DeliveryIdle /\ ShutdownIdle /\ LabelIdle
    /\ ReaderIdle

NextDispatch ==
    \/ run_websocket_monitoring_Dispatch
    \/ maintain_websocket_connection_Detect
    \/ process_pool_async_Resolve

SpecDispatch == InitDispatchSpec /\ [][NextDispatch]_vars

\* the active programs whose id and marker both occur in the logs, and the
\* first of them in configuration order
Matching ==
    {k \in 1..Len(dispatch.active_programs) : Matches(dispatch.active_programs[k])}

FirstMatching ==
    dispatch.active_programs[CHOOSE k \in Matching : \A j \in Matching : k <= j]

\* C23: a stream message whose logs match the id and marker of an active
\* program causes exactly one Transaction Resolver call, made for the first
\* matching program in configuration order even when several match; a
\* message whose logs hold no active program's marker causes none.
C23_OneResolverCallPerEvent ==
    dispatch.pc = "done" =>
        /\ Matching # {} =>
              /\ Len(dispatch.calls) = 1
              /\ dispatch.calls[1] = FirstMatching
        /\ (\A k \in 1..Len(dispatch.active_programs) :
                dispatch.active_programs[k] \notin event.markers)
              => dispatch.calls = <<>>

C23_Witness ==
    /\ dispatch.pc = "done"
    /\ Cardinality(Matching) = 2
    /\ Len(dispatch.calls) = 1

(***************************************************************************)
(* extract_token_address                                                   *)
(*                                                                         *)
(* payload holds the three fields of the transaction record the extractor  *)
(* reads, and the source argument of the legacy call.  A mint is NoMint    *)
(* (None or empty), WrappedSOL or a candidate, whose text is CandidateText.*)
(***************************************************************************)
MaxTransfers == 2
\* None, and the mint "So111..112"
NoMint == 0
WrappedSOL == 0 - 1
MaxInstructions == 1
MaxAccountKeys == 2

SeqsUpTo(S, n) == UNION {[1..k -> S] : k \in 0..n}

TransferRecords ==
    [mint : {NoMint, WrappedSOL} \cup Tokens,
     fromTokenAccount : {"absent", "present"}]

InstructionRecords ==
    {[program |-> "spl-token", type |-> "initializeMint", mint |-> m] :
        m \in {NoMint} \cup Tokens}
    \cup {[program |-> "spl-token", type |-> "transfer", mint |-> NoMint],
          [program |-> "system", type |-> "initializeMint", mint |-> NoMint]}

Payloads ==
    {[tokenTransfers |-> tt, instructions |-> ii, accountKeys |-> <<>>,
      source |-> src] :
        tt \in SeqsUpTo(TransferRecords, MaxTransfers),
        ii \in SeqsUpTo(InstructionRecords, MaxInstructions),
        src \in ProgramSet}
    \cup
    {[tokenTransfers |-> tt, instructions |-> <<>>, accountKeys |-> kk,
      source |-> src] :
        tt \in SeqsUpTo(TransferRecords, 1),
        kk \in SeqsUpTo(Tokens, MaxAccountKeys),
        src \in ProgramSet}

InitExtract ==
    /\ payload \in Payloads
    /\ extracted = NotExtracted

\* `mint and mint != "So111..112" and from_account`
Qualifies(token) ==
    /\ token.mint # NoMint
    /\ token.mint # WrappedSOL
    /\ token.fromTokenAccount = "present"

\* the `for token in token_transfers` loop of the legacy extractor, from
\* position i on: the first qualifying mint is returned
RECURSIVE ScanTransfers(_, _)
ScanTransfers(tt, i) ==
    IF i > Len(tt) THEN NoMint
    ELSE IF Qualifies(tt[i]) THEN tt[i].mint
    ELSE ScanTransfers(tt, i + 1)

\* the loop of the optimized extractor: a qualifying mint is returned only
\* `if is_valid_solana_address(mint)`, otherwise the loop goes on
RECURSIVE ScanValidTransfers(_, _)
ScanValidTransfers(tt, i) ==
    IF i > Len(tt) THEN NoMint
    ELSE IF Qualifies(tt[i]) /\ is_valid_solana_address(CandidateText(tt[i].mint))
    THEN tt[i].mint
    ELSE ScanValidTransfers(tt, i + 1)

\* the `for instruction in instructions` loop: the mint of the first
\* spl-token initializeMint instruction that has one
RECURSIVE ScanInstructions(_, _)
ScanInstructions(ii, j) ==
    IF j > Len(ii) THEN NoMint
    ELSE IF /\ ii[j].program = "spl-token"
            /\ ii[j].type = "initializeMint"
            /\ ii[j].mint # NoMint
    THEN ii[j].mint
    ELSE ScanInstructions(ii, j + 1)

\* extract_token_address(transaction_data, source) of src/ILove.py
extract_token_address_legacy(p) ==
    IF p.source = "raydium"
    THEN IF ScanTransfers(p.tokenTransfers, 1) # NoMint
         THEN ScanTransfers(p.tokenTransfers, 1)
         ELSE ScanInstructions(p.instructions, 1)
    ELSE IF /\ Len(p.accountKeys) > 0
            /\ is_valid_solana_address(
                   CandidateText(p.accountKeys[Len(p.accountKeys)]))
    THEN p.accountKeys[Len(p.accountKeys)]
    ELSE NoMint

\* mutant: the first qualifying mint is returned without the address test
extract_token_address_optimized_Untested(p) ==
    ScanTransfers(p.tokenTransfers, 1)

\* extract_token_address(transaction_data) of src/ILove_optimized.py
extract_token_address_optimized(p) ==
    ScanValidTransfers(p.tokenTransfers, 1)

extract_token_address_Call ==
    /\ ~extracted.done
    /\ extracted' = [done |-> TRUE,
                     legacy |-> extract_token_address_legacy(payload),
                     optimized |-> extract_token_address_optimized(payload)]
    /\ UNCHANGED payload
    /\ UNCHANGED <<dispatchVars, holderVars, deliveryVars, shutdownVars, labelVars>>
    /\ UNCHANGED <<streamVars, storeVars, limiterVars, evalVars, validatorVars, pipeVars,
                   readerVars>>

InitExtractSpec ==
    /\ StreamIdle /\ StoreIdle /\ LimiterIdle /\ EvalIdle /\ ValidatorIdle
    /\ PipeIdle
    /\ InitExtract
    /\ DispatchIdle /\ HolderIdle /\ DeliveryIdle /\ ShutdownIdle /\ LabelIdle
    /\ ReaderIdle

NextExtract == extract_token_address_Call

SpecExtract == InitExtractSpec /\ [][NextExtract]_vars

\* positions of the qualifying transfers, of those with a valid mint, and of
\* the initializeMint instructions that name a mint
QualifyingAt ==
    {i \in 1..Len(payload.tokenTransfers) : Qualifies(payload.tokenTransfers[i])}

ValidQualifyingAt ==
    {i \in QualifyingAt :
        is_valid_solana_address(CandidateText(payload.tokenTransfers[i].mint))}

InitializeMintAt ==
    {j \in 1..Len(payload.instructions) :
        /\ payload.instructions[j].program = "spl-token"
        /\ payload.instructions[j].type = "initializeMint"
        /\ payload.instructions[j].mint # NoMint}

First(S) == CHOOSE i \in S : \A j \in S : i <= j

\* C24 as claimed: transfer scanning returns the asset of the first
\* qualifying transfer and none when no transfer qualifies; the address-list
\* source returns the last entry of the list, or none if the list is empty.
C24_ExtractorAsClaimed ==
    extracted.done =>
        LET scan == IF QualifyingAt # {}
                    THEN payload.tokenTransfers[First(QualifyingAt)].mint
                    ELSE NoMint
            last == IF payload.accountKeys # <<>>
                    THEN payload.accountKeys[Len(payload.accountKeys)]
                    ELSE NoMint
        IN /\ extracted.optimized = scan
           /\ extracted.legacy = IF payload.source = "raydium" THEN scan ELSE last

\* C24: transfer scanning returns the asset of the first transfer, in payload
\* order, whose asset is present and not the native wrapped asset and whose
\* origin account is present, and in the optimized variant also a valid
\* address; when no transfer qualifies the legacy variant returns the mint of
\* the first spl-token initializeMint instruction that names one, and
\* otherwise the result is none.  The address-list source (legacy only)
\* returns the last entry of the list if it is a valid address, none
\* otherwise.
C24_ExtractorRules ==
    extracted.done =>
        /\ extracted.optimized =
              IF ValidQualifyingAt # {}
              THEN payload.tokenTransfers[First(ValidQualifyingAt)].mint
              ELSE NoMint
        /\ payload.source = "raydium" =>
              extracted.legacy =
                 IF QualifyingAt # {}
                 THEN payload.tokenTransfers[First(QualifyingAt)].mint
                 ELSE IF InitializeMintAt # {}
                 THEN payload.instructions[First(InitializeMintAt)].mint
                 ELSE NoMint
        /\ payload.source = "pump_fun" =>
              LET n == Len(payload.accountKeys) IN
              extracted.legacy =
                 IF n > 0 /\ is_valid_solana_address(CandidateText(payload.accountKeys[n]))
                 THEN payload.accountKeys[n]
                 ELSE NoMint

C24_Witness ==
    /\ extracted.done
    /\ payload.source = "raydium"
    /\ Len(payload.tokenTransfers) = 2
    /\ QualifyingAt = {1, 2}
    /\ ValidQualifyingAt = {2}
    /\ extracted.legacy = payload.tokenTransfers[1].mint
    /\ extracted.optimized = payload.tokenTransfers[2].mint

(***************************************************************************)
(* Holder concentration                                                    *)
(*                                                                         *)
(* A holder record has the raw amount and the percentage the service       *)
(* reports.  perform_rugcheck_async computes the share of the ten largest  *)
(* amounts; perform_rug_check adds up the reported percentages.  A value   *)
(* of the optimized variant is the fraction num / den.                     *)
(***************************************************************************)
\* sorted(..)[:10]
TopHolders == 10
MaxAmount == 2
MaxShortList == 2

HolderRecords == [amount : 0..MaxAmount, percentage : {0, 10}]

\* lists of more than ten holders, smallest amounts first
LongLists ==
    {[i \in 1..(TopHolders + 1) |->
        [amount |-> IF i <= k THEN 1 ELSE 2, percentage |-> 10]] :
            k \in 0..(TopHolders + 1)}

HolderLists == SeqsUpTo(HolderRecords, MaxShortList) \cup LongLists

InitHolders ==
    /\ holderList \in HolderLists
    /\ holderPerm = holderList
    /\ hc = NotComputed

\* sorted(rc.topHolders, key=lambda x: x['amount'], reverse=True): a stable
\* sort, records of equal amount keep their order
RECURSIVE InsertByAmount(_, _)
InsertByAmount(x, q) ==
    IF q = <<>> THEN <<x>>
    ELSE IF Head(q).amount >= x.amount
    THEN <<Head(q)>> \o InsertByAmount(x, Tail(q))
    ELSE <<x>> \o q

RECURSIVE SortedByAmount(_)
SortedByAmount(q) ==
    IF q = <<>> THEN <<>>
    ELSE InsertByAmount(q[Len(q)], SortedByAmount(SubSeq(q, 1, Len(q) - 1)))

Amounts(q) == [i \in 1..Len(q) |-> q[i].amount]
Percentages(q) == [i \in 1..Len(q) |-> q[i].percentage]

\* mutant: the first ten records of the list as received
total_percentage_Unsorted(q) ==
    LET total_amount == SumSeq(Amounts(q))
        top_holders == SubSeq(q, 1, Min(TopHolders, Len(q)))
    IN IF total_amount > 0
       THEN [num |-> 100 * SumSeq(Amounts(top_holders)), den |-> total_amount]
       ELSE Zero

\* total_percentage of perform_rugcheck_async: the sum over top_holders of
\* holder['amount'] / total_amount * 100, or of 0 when total_amount is 0
total_percentage(q) ==
    LET total_amount == SumSeq(Amounts(q))
        top_holders == SubSeq(SortedByAmount(q), 1, Min(TopHolders, Len(q)))
    IN IF total_amount > 0
       THEN [num |-> 100 * SumSeq(Amounts(top_holders)), den |-> total_amount]
       ELSE Zero

\* top_holders_percentage of perform_rug_check for a list of records
legacy_percentage(q) ==
    top_holders_percentage([shape |-> "list", totalPercentage |-> 0,
                            holders |-> Percentages(q)])

\* the same holders arrive in another order
Holders_Rearrange ==
    /\ ~hc.done
    /\ \E i \in 1..(Len(holderPerm) - 1) :
          /\ holderPerm[i] # holderPerm[i + 1]
          /\ holderPerm' = [holderPerm EXCEPT ![i] = holderPerm[i + 1],
                                              ![i + 1] = holderPerm[i]]
    /\ UNCHANGED <<holderList, hc>>
    /\ UNCHANGED <<dispatchVars, extractVars, deliveryVars, shutdownVars, labelVars>>
    /\ UNCHANGED <<streamVars, storeVars, limiterVars, evalVars, validatorVars, pipeVars,
                   readerVars>>

Holders_Compute ==
    /\ ~hc.done
    /\ hc' = [done |-> TRUE,
              optimized |-> total_percentage(holderList),
              optimizedPerm |-> total_percentage(holderPerm),
              legacy |-> legacy_percentage(holderList),
              legacyPerm |-> legacy_percentage(holderPerm)]
    /\ UNCHANGED <<holderList, holderPerm>>
    /\ UNCHANGED <<dispatchVars, extractVars, deliveryVars, shutdownVars, labelVars>>
    /\ UNCHANGED <<streamVars, storeVars, limiterVars, evalVars, validatorVars, pipeVars,
                   readerVars>>

InitHolderSpec ==
    /\ StreamIdle /\ StoreIdle /\ LimiterIdle /\ EvalIdle /\ ValidatorIdle
    /\ PipeIdle
    /\ InitHolders
    /\ DispatchIdle /\ ExtractIdle /\ DeliveryIdle /\ ShutdownIdle /\ LabelIdle
    /\ ReaderIdle

NextHolders == Holders_Rearrange \/ Holders_Compute

SpecHolders == InitHolderSpec /\ [][NextHolders]_vars

TopAmountSum ==
    LET n == Len(holderList)
        S == CHOOSE T \in SUBSET (1..n) :
                /\ Cardinality(T) = Min(TopHolders, n)
                /\ \A i \in T : \A j \in (1..n) \ T :
                      holderList[i].amount >= holderList[j].amount
    IN SumSeq([k \in 1..n |-> IF k \in S THEN holderList[k].amount ELSE 0])

\* C26: the holder concentration is the sum, over the ten holders with the
\* largest raw amounts, of amount / (sum of all listed amounts) * 100;
\* holders beyond the ten count in the denominator only; a total of zero
\* gives 0.
C26_TopTenShare ==
    hc.done =>
        LET total == SumSeq(Amounts(holderList)) IN
        IF total = 0
        THEN hc.optimized = Zero /\ hc.legacy = 0
        ELSE /\ hc.optimized = [num |-> 100 * TopAmountSum, den |-> total]
             /\ hc.legacy * total = 100 * TopAmountSum

\* C27: the Risk Evaluator accepts topHolders both as a dict with a
\* precomputed total, which it uses directly, and as a list of per-holder
\* records, from which it computes the concentration; neither shape makes
\* the evaluation end in an error or leaves the concentration out.
C27_BothShapesAccepted ==
    (/\ ev.pc = "returned" /\ ev.rc_result.data /\ ev.nCalls = 1
     /\ ev.rc_result.topHolders.shape \in {"dict", "list"})
        => /\ ev.impl = "perform_rugcheck_async" => ev.reasons = <<>>
           /\ (ev.impl = "perform_rug_check" /\ config.check_top_holders) =>
                 /\ ev.fromData
                 /\ TopHoldersReason(ev.rc_result) \in Range(ev.reasons)
                       <=> TopHoldersViolated(ev.rc_result)

(***************************************************************************)
(* Notification delivery                                                   *)
(*                                                                         *)
(*   optimized  send_telegram_message_async(session, message, retries),    *)
(*              called by process_pool_async                               *)
(*   legacy     send_telegram_message(message), called by process_new_pool *)
(*                                                                         *)
(* responses is the list of what the posts of the current delivery met:    *)
(* "200", "status" (another status) or "exception".  sleeps has one entry  *)
(* <<attempt, seconds>> for every asyncio.sleep taken.                     *)
(***************************************************************************)
\* MAX_RETRIES = int(os.getenv("MAX_RETRIES", "3"))
MAX_RETRIES == 3
\* notifications sent in one behaviour
MaxDeliveries == 2

InitDelivery ==
    \E v \in {"optimized", "legacy"} :
    \E r \in 1..MAX_RETRIES :
    \E c \in BOOLEAN :
       /\ v = "legacy" => r = 1
       /\ v = "optimized" => c
       /\ dv = [IdleDelivery EXCEPT !.impl = v, !.retries = r,
                                    !.credentials = c]

\* process_pool_async: message_task = send_telegram_message_async(..), whose
\* first statement is `await telegram_limiter.acquire()`;
\* process_new_pool: send_telegram_message(message)
Delivery_Call ==
    /\ dv.pc = "idle"
    /\ dv.deliveries < MaxDeliveries
    /\ dv' = [dv EXCEPT !.pc = "post",
                        !.attempt = 0,
                        !.posts = 0,
                        !.responses = <<>>,
                        !.sleeps = <<>>,
                        !.acquires = IF dv.impl = "optimized" THEN 1 ELSE 0,
                        !.result = FALSE,
                        !.deliveries = dv.deliveries + 1]
    /\ UNCHANGED <<dispatchVars, extractVars, holderVars, shutdownVars, labelVars>>
    /\ UNCHANGED <<streamVars, storeVars, limiterVars, evalVars, validatorVars, pipeVars,
                   readerVars>>

\* the end of one iteration of `for attempt in range(retries)` that has not
\* returned: the next iteration, or `return False` after the last
NextAttempt(d) ==
    IF d.attempt + 1 < d.retries
    THEN [d EXCEPT !.attempt = d.attempt + 1]
    ELSE [d EXCEPT !.pc = "returned", !.result = FALSE]

\* mutant: a status other than 200 repeats the post without counting it
send_telegram_message_async_Post_StatusNotCounted ==
    /\ dv.pc = "post"
    /\ dv.impl = "optimized"
    /\ \E o \in {"200", "status", "exception"} :
          LET d == [dv EXCEPT !.posts = dv.posts + 1,
                             !.responses = Append(dv.responses, o)]
          IN CASE o = "200" -> dv' = [d EXCEPT !.pc = "returned", !.result = TRUE]
               [] o = "status" ->
                     dv' = IF d.posts <= d.retries THEN d ELSE NextAttempt(d)
               [] OTHER ->
                     dv' = IF d.attempt < d.retries - 1
                           THEN [d EXCEPT !.pc = "sleep"]
                           ELSE NextAttempt(d)
    /\ UNCHANGED <<dispatchVars, extractVars, holderVars, shutdownVars, labelVars>>
    /\ UNCHANGED <<streamVars, storeVars, limiterVars, evalVars, validatorVars, pipeVars,
                   readerVars>>

\* one `async with session.post(url, json=payload) as response` of the loop:
\* status 200 returns True; another status logs a warning and goes to the
\* next iteration; an exception is logged and, unless this was the last
\* attempt, followed by asyncio.sleep(2 ** attempt)
send_telegram_message_async_Post ==
    /\ dv.pc = "post"
    /\ dv.impl = "optimized"
    /\ \E o \in {"200", "status", "exception"} :
          LET d == [dv EXCEPT !.posts = dv.posts + 1,
                             !.responses = Append(dv.responses, o)]
          IN CASE o = "200" -> dv' = [d EXCEPT !.pc = "returned", !.result = TRUE]
               [] o = "status" -> dv' = NextAttempt(d)
               [] OTHER ->
                     dv' = IF d.attempt < d.retries - 1
                           THEN [d EXCEPT !.pc = "sleep"]
                           ELSE NextAttempt(d)
    /\ UNCHANGED <<dispatchVars, extractVars, holderVars, shutdownVars, labelVars>>
    /\ UNCHANGED <<streamVars, storeVars, limiterVars, evalVars, validatorVars, pipeVars,
                   readerVars>>

\* await asyncio.sleep(2 ** attempt) has returned
send_telegram_message_async_Sleep ==
    /\ dv.pc = "sleep"
    /\ dv' = [NextAttempt(dv) EXCEPT
                 !.pc = "post",
                 !.sleeps = Append(dv.sleeps, <<dv.attempt, Pow2(dv.attempt)>>)]
    /\ UNCHANGED <<dispatchVars, extractVars, holderVars, shutdownVars, labelVars>>
    /\ UNCHANGED <<streamVars, storeVars, limiterVars, evalVars, validatorVars, pipeVars,
                   readerVars>>

\* send_telegram_message: False without a request if the credentials are
\* missing; otherwise one requests.post with raise_for_status, True, or
\* False from `except Exception`
send_telegram_message_Post ==
    /\ dv.pc = "post"
    /\ dv.impl = "legacy"
    /\ IF ~dv.credentials
       THEN dv' = [dv EXCEPT !.pc = "returned", !.result = FALSE]
       ELSE \E o \in {"200", "status", "exception"} :
               dv' = [dv EXCEPT !.pc = "returned",
                                !.posts = dv.posts + 1,
                                !.responses = Append(dv.responses, o),
                                !.result = (o = "200")]
    /\ UNCHANGED <<dispatchVars, extractVars, holderVars, shutdownVars, labelVars>>
    /\ UNCHANGED <<streamVars, storeVars, limiterVars, evalVars, validatorVars, pipeVars,
                   readerVars>>

\* the caller has the result: process_pool_async logs 'notification sent' or
\* 'Failed to send notification', updates the metrics and ends, and the pool
\* processor takes the next signature; process_new_pool returns to the
\* monitor loop
Delivery_Return ==
    /\ dv.pc = "returned"
    /\ dv' = [dv EXCEPT !.pc = "idle",
                        !.failedBefore = dv.failedBefore \/ ~dv.result]
    /\ UNCHANGED <<dispatchVars, extractVars, holderVars, shutdownVars, labelVars>>
    /\ UNCHANGED <<streamVars, storeVars, limiterVars, evalVars, validatorVars, pipeVars,
                   readerVars>>

InitDeliverySpec ==
    /\ StreamIdle /\ StoreIdle /\ LimiterIdle /\ EvalIdle /\ ValidatorIdle
    /\ PipeIdle
    /\ InitDelivery
    /\ DispatchIdle /\ ExtractIdle /\ HolderIdle /\ ShutdownIdle /\ LabelIdle
    /\ ReaderIdle

NextDelivery ==
    \/ Delivery_Call
    \/ send_telegram_message_async_Post
    \/ send_telegram_message_async_Sleep
    \/ send_telegram_message_Post
    \/ Delivery_Return

SpecDelivery == InitDeliverySpec /\ [][NextDelivery]_vars

\* C28: a notification delivery makes at most `retries` (at most 3 by
\* default) POST attempts; it returns success at the first 200 response,
\* without a further attempt; when every attempt has failed it returns
\* failure; and it always returns to a caller that goes on to the next
\* event.
C28_BoundedDelivery ==
    /\ dv.posts <= dv.retries
    /\ dv.retries <= MAX_RETRIES
    /\ Len(dv.responses) = dv.posts
    /\ \A i \in 1..(dv.posts - 1) : dv.responses[i] # "200"
    /\ dv.pc = "returned" =>
          /\ dv.result <=> (dv.posts > 0 /\ dv.responses[dv.posts] = "200")
          /\ (~dv.result /\ dv.credentials) => dv.posts = dv.retries
    /\ (dv.pc \in {"post", "sleep"}) => dv.posts < dv.retries \/ ~dv.credentials

C28_Witness ==
    /\ dv.pc = "returned"
    /\ dv.failedBefore
    /\ dv.impl = "optimized"
    /\ dv.result
    /\ dv.posts = MAX_RETRIES

(***************************************************************************)
(* Shutdown                                                                *)
(*                                                                         *)
(* Both variants register signal_handler for SIGINT and SIGTERM; it logs   *)
(* and calls exit(0), which raises SystemExit in the main thread at the    *)
(* point the program has reached.                                          *)
(*                                                                         *)
(*   optimized  SystemExit leaves the event loop; asyncio.run cancels the  *)
(*              tasks, so `async with websockets.connect(..)` closes the   *)
(*              connection and the `finally` of main closes the session    *)
(*   legacy     no `except` clause of websocket_connection or of           *)
(*              run_websocket_monitoring catches SystemExit; the `finally` *)
(*              of the monitor closes the connection its variable ws holds *)
(*                                                                         *)
(* A connection that websocket_connection has created and not yet returned *)
(* is held by no variable of the monitor.  In wc_sleep, and in mon_sleep   *)
(* after the last attempt has failed, such a connection exists if the      *)
(* failure was that of ws.send and does not if it was that of              *)
(* create_connection.                                                      *)
(***************************************************************************)
\* whether the process can exit at this point with the stream connection open
LeftOpen ==
    IF variant = "optimized" THEN {FALSE}
    ELSE IF wpc = "send" THEN {TRUE}
    ELSE IF wpc = "wc_sleep" \/ (wpc = "mon_sleep" /\ exhausted) THEN BOOLEAN
    ELSE {FALSE}

\* signal_handler(sig, frame): exit(0), and what runs on the way out
signal_handler ==
    /\ proc.state = "running"
    /\ \E open \in LeftOpen :
          proc' = [state |-> "exited", at |-> wpc, connectionOpen |-> open,
                   sessionOpen |-> FALSE]
    /\ UNCHANGED <<dispatchVars, extractVars, holderVars, deliveryVars, labelVars>>
    /\ UNCHANGED <<streamVars, storeVars, limiterVars, evalVars, validatorVars, pipeVars,
                   readerVars>>

\* the stream loop, its queue and its workers run while the process does
NextShutdown ==
    \/ proc.state = "running" /\ Next
    \/ signal_handler

SpecShutdown == Init /\ [][NextShutdown]_vars

\* C29: after a shutdown signal the stream-reading loop has stopped where it
\* was, the stream connection and the pooled HTTP session have been closed
\* before the process exits, and no further connection attempt is started.
C29_ClosedBeforeExit ==
    proc.state = "exited" =>
        /\ ~proc.connectionOpen
        /\ ~proc.sessionOpen
        /\ wpc = proc.at

(***************************************************************************)
(* Risk label of format_rugcheck_message                                   *)
(***************************************************************************)
\* rc_result['score'] > 75, rc_result['score'] > 40
HighRiskAbove == 75
MediumRiskAbove == 40
\* largest score of the model
MaxScore == 120

InitLabel ==
    /\ score \in 0..MaxScore
    /\ label = "none"

\* mutant: a score equal to a threshold is in the higher tier
risk_label_Inclusive(x) ==
    IF x >= HighRiskAbove THEN "HIGH RISK"
    ELSE IF x >= MediumRiskAbove THEN "MEDIUM RISK"
    ELSE "LOW RISK"

\* risk_label = "HIGH RISK" if score > 75 else "MEDIUM RISK" if score > 40
\* else "LOW RISK"
risk_label(x) ==
    IF x > HighRiskAbove THEN "HIGH RISK"
    ELSE IF x > MediumRiskAbove THEN "MEDIUM RISK"
    ELSE "LOW RISK"

format_rugcheck_message_Call ==
    /\ label = "none"
    /\ label' = risk_label(score)
    /\ UNCHANGED score
    /\ UNCHANGED <<dispatchVars, extractVars, holderVars, deliveryVars, shutdownVars>>
    /\ UNCHANGED <<streamVars, storeVars, limiterVars, evalVars, validatorVars, pipeVars,
                   readerVars>>

InitLabelSpec ==
    /\ StreamIdle /\ StoreIdle /\ LimiterIdle /\ EvalIdle /\ ValidatorIdle
    /\ PipeIdle
    /\ InitLabel
    /\ DispatchIdle /\ ExtractIdle /\ HolderIdle /\ DeliveryIdle /\ ShutdownIdle
    /\ ReaderIdle

NextLabel == format_rugcheck_message_Call

SpecLabel == InitLabelSpec /\ [][NextLabel]_vars

\* C30: the risk label depends on the score alone: the highest tier if the
\* score is above 75, the middle tier if it is above 40 and at most 75, the
\* lowest tier otherwise; a score of exactly 75 is in the middle tier and a
\* score of exactly 40 in the lowest.
C30_LabelByThresholds ==
    label # "none" =>
        /\ label = "HIGH RISK" <=> score > 75
        /\ label = "MEDIUM RISK" <=> (40 < score /\ score <= 75)
        /\ label = "LOW RISK" <=> score <= 40

C30_Witness ==
    /\ label = "MEDIUM RISK"
    /\ score = 75

(***************************************************************************)
(* The message loop of the stream reader, message by message               *)
(*                                                                         *)
(*   optimized  maintain_websocket_connection: `async for message in       *)
(*              websocket` with a try around each message                  *)
(*   legacy     run_websocket_monitoring: ws.recv() and json.loads inside  *)
(*              the try of the connection loop                             *)
(*                                                                         *)
(* rd.conn numbers the connections; rd.history holds, per message, its     *)
(* kind, the connection it came on, and what the handler did with it.      *)
(***************************************************************************)
\* number of messages the stream delivers in one behaviour
MaxMessages == 3

\* "pool": a logsNotification whose logs hold the watched marker;
\* "invalid_json": json.loads raises; "malformed": a logsNotification
\* without params.result.value.logs or .signature
MessageKinds == {"pool", "no_marker", "other_method", "invalid_json", "malformed"}
MalformedKinds == {"invalid_json", "malformed"}

\* what the handler of one message did
Handled(kind, outcome, logged, closed, slept) ==
    [kind |-> kind, conn |-> rd.conn, outcome |-> outcome, logged |-> logged,
     closed |-> closed, slept |-> slept]

InitReader ==
    \E v \in {"optimized", "legacy"} :
        rd = [pc |-> "recv", impl |-> v, conn |-> 1, pending |-> 0,
              queue |-> <<>>, n |-> 0, history |-> <<>>]

\* one iteration of `async for message in websocket` up to its first await
maintain_websocket_connection_Message ==
    /\ rd.impl = "optimized" /\ rd.pc = "recv"
    /\ rd.n < MaxMessages
    /\ \E kind \in MessageKinds :
          CASE kind = "pool" ->
                  \* `await pool_queue.put(signature)` comes next
                  rd' = [rd EXCEPT !.n = rd.n + 1, !.pc = "put",
                                   !.pending = rd.n + 1]
            [] kind = "invalid_json" ->
                  \* except json.JSONDecodeError: logger.warning(..)
                  rd' = [rd EXCEPT !.n = rd.n + 1,
                            !.history = Append(rd.history,
                               Handled(kind, "discarded", TRUE, FALSE, 0))]
            [] kind = "malformed" ->
                  \* KeyError; except Exception as e: logger.error(..)
                  rd' = [rd EXCEPT !.n = rd.n + 1,
                            !.history = Append(rd.history,
                               Handled(kind, "discarded", TRUE, FALSE, 0))]
            [] OTHER ->
                  rd' = [rd EXCEPT !.n = rd.n + 1,
                            !.history = Append(rd.history,
                               Handled(kind, "ignored", FALSE, FALSE, 0))]
    /\ UNCHANGED <<dispatchVars, extractVars, holderVars, deliveryVars,
                   shutdownVars, labelVars>>
    /\ UNCHANGED <<streamVars, storeVars, limiterVars, evalVars, validatorVars,
                   pipeVars>>

\* await pool_queue.put(signature): suspends while the queue is full
maintain_websocket_connection_Enqueue ==
    /\ rd.impl = "optimized" /\ rd.pc = "put"
    /\ Len(rd.queue) < QueueMaxsize
    /\ rd' = [rd EXCEPT !.pc = "recv", !.pending = 0,
                        !.queue = Append(rd.queue, rd.pending),
                        !.history = Append(rd.history,
                            Handled("pool", "enqueued", TRUE, FALSE, 0))]
    /\ UNCHANGED <<dispatchVars, extractVars, holderVars, deliveryVars,
                   shutdownVars, labelVars>>
    /\ UNCHANGED <<streamVars, storeVars, limiterVars, evalVars, validatorVars,
                   pipeVars>>

\* signature = await pool_queue.get()
pool_processor_Take ==
    /\ rd.impl = "optimized"
    /\ rd.queue # <<>>
    /\ rd' = [rd EXCEPT !.queue = Tail(rd.queue)]
    /\ UNCHANGED <<dispatchVars, extractVars, holderVars, deliveryVars,
                   shutdownVars, labelVars>>
    /\ UNCHANGED <<streamVars, storeVars, limiterVars, evalVars, validatorVars,
                   pipeVars>>

\* message = ws.recv(); data = json.loads(message); the program match and
\* process_new_pool; an exception leaves the inner loop: `except Exception`
\* logs it, time.sleep(5), and `finally` closes the connection
run_websocket_monitoring_Message ==
    /\ rd.impl = "legacy" /\ rd.pc = "recv"
    /\ rd.n < MaxMessages
    /\ \E kind \in MessageKinds :
          CASE kind = "pool" ->
                  \E raised \in BOOLEAN :
                     IF raised
                     THEN rd' = [rd EXCEPT !.n = rd.n + 1, !.pc = "reconnect",
                                   !.history = Append(rd.history,
                                      Handled(kind, "raised", TRUE, TRUE,
                                              MonitorSleep))]
                     ELSE rd' = [rd EXCEPT !.n = rd.n + 1,
                                   !.history = Append(rd.history,
                                      Handled(kind, "processed", TRUE, FALSE, 0))]
            [] kind \in MalformedKinds ->
                  rd' = [rd EXCEPT !.n = rd.n + 1, !.pc = "reconnect",
                            !.history = Append(rd.history,
                               Handled(kind, "discarded", TRUE, TRUE,
                                       MonitorSleep))]
            [] OTHER ->
                  rd' = [rd EXCEPT !.n = rd.n + 1,
                            !.history = Append(rd.history,
                               Handled(kind, "ignored", FALSE, FALSE, 0))]
    /\ UNCHANGED <<dispatchVars, extractVars, holderVars, deliveryVars,
                   shutdownVars, labelVars>>
    /\ UNCHANGED <<streamVars, storeVars, limiterVars, evalVars, validatorVars,
                   pipeVars>>

\* the next iteration of `while True`: ws = websocket_connection(..)
run_websocket_monitoring_Reconnect ==
    /\ rd.impl = "legacy" /\ rd.pc = "reconnect"
    /\ rd' = [rd EXCEPT !.pc = "recv", !.conn = rd.conn + 1]
    /\ UNCHANGED <<dispatchVars, extractVars, holderVars, deliveryVars,
                   shutdownVars, labelVars>>
    /\ UNCHANGED <<streamVars, storeVars, limiterVars, evalVars, validatorVars,
                   pipeVars>>

InitReaderSpec ==
    /\ StreamIdle /\ StoreIdle /\ LimiterIdle /\ EvalIdle /\ ValidatorIdle
    /\ PipeIdle
    /\ DispatchIdle /\ ExtractIdle /\ HolderIdle /\ DeliveryIdle /\ ShutdownIdle
    /\ LabelIdle
    /\ InitReader

NextReader ==
    \/ maintain_websocket_connection_Message
    \/ maintain_websocket_connection_Enqueue
    \/ pool_processor_Take
    \/ run_websocket_monitoring_Message
    \/ run_websocket_monitoring_Reconnect

SpecReader == InitReaderSpec /\ [][NextReader]_vars

\* C31: a malformed or unexpectedly shaped stream message (invalid JSON, or
\* a logsNotification lacking the logs/signature fields) is discarded and
\* logged without closing the stream connection, without entering backoff
\* and without enqueuing an event; the next well-formed message on the same
\* connection is processed normally.
C31_MalformedDiscarded ==
    \A i \in 1..Len(rd.history) :
        LET h == rd.history[i] IN
        h.kind \in MalformedKinds =>
            /\ h.outcome = "discarded" /\ h.logged
            /\ ~h.closed /\ h.slept = 0
            /\ i < Len(rd.history) =>
                  /\ rd.history[i + 1].conn = h.conn
                  /\ rd.history[i + 1].kind = "pool" =>
                        rd.history[i + 1].outcome \in {"enqueued", "processed"}

(***************************************************************************)
(* Delivery: the rate limiter and the delays between attempts              *)
(* (specification SpecDelivery)                                            *)
(***************************************************************************)
\* C32: every POST attempt to the operator channel, including each retry of
\* a failed delivery, is preceded by its own acquisition from the
\* notification rate limiter, so the number of POSTs never exceeds the
\* number of acquisitions the limiter has granted.
C32_PostsWithinGrants ==
    dv.impl = "optimized" => dv.posts <= dv.acquires

\* the delay taken after the attempt with index a
DelaysAfter(a) ==
    {k \in 1..Len(dv.sleeps) : dv.sleeps[k][1] = a}

\* C33: any two consecutive delivery attempts of one notification are
\* separated by a delay of 2^attempt seconds after the attempt with index
\* attempt, whether that attempt failed by a transport exception or by a
\* non-200 response; no delay is taken after the final attempt.
C33_BackoffBetweenAttempts ==
    dv.impl = "optimized" =>
        /\ \A a \in 0..(dv.attempt - 1) :
              \E k \in DelaysAfter(a) : dv.sleeps[k][2] = Pow2(a)
        /\ DelaysAfter(dv.retries - 1) = {}

(***************************************************************************)
(* perform_rug_check: the result pair and the disabled criteria            *)
(* (specification SpecEval)                                                *)
(***************************************************************************)
\* perform_rug_check has returned
Evaluated == ev.impl = "perform_rug_check" /\ ev.pc = "returned"

\* C34: perform_rug_check returns passed = true only together with an empty
\* reasons list, and whenever it returns passed = false the reasons list is
\* non-empty, whatever the sequence of attempt outcomes (no data, exception,
\* data): a failure after exhausted retries carries a final failure reason.
C34_ResultCarriesReason ==
    Evaluated =>
        /\ ev.passed => ev.reasons = <<>>
        /\ ~ev.passed => ev.reasons # <<>>

C34_Witness ==
    /\ Evaluated
    /\ ~ev.passed
    /\ ~ev.fromData
    /\ ev.nCalls = max_retries
    /\ ev.reasons = <<"Unexpected rugcheck error">>

\* C37: the reasons list returned by perform_rug_check contains no reason
\* more than once, for every sequence of attempt outcomes.
C37_NoRepeatedReason ==
    Evaluated =>
        \A i, j \in 1..Len(ev.reasons) :
            ev.reasons[i] = ev.reasons[j] => i = j

\* the reasons each criterion can give, over every response
MintReasons == {MintReason(rc) : rc \in Responses}
FreezeReasons == {FreezeReason(rc) : rc \in Responses}
TopHoldersReasons == {TopHoldersReason(rc) : rc \in Responses}

\* the response with the fields of the disabled criteria replaced by values
\* that violate nothing
Neutral(rc) ==
    [rc EXCEPT
       !.mintAuthority = IF config.check_mint_authority THEN @ ELSE "disabled",
       !.freezeAuthority = IF config.check_freeze_authority THEN @ ELSE "disabled",
       !.topHolders = IF config.check_top_holders THEN @ ELSE NoHolders]

\* C38: a criterion whose configuration flag is false (check_mint_authority,
\* check_freeze_authority, check_top_holders) never contributes a failure
\* reason and never changes the pass/fail outcome, whatever the remote
\* response holds for its field: the reasons returned hold none of its
\* reasons, a response evaluated on the first attempt passes exactly if it
\* would pass with that field harmless, and the field makes no attempt raise.
C38_DisabledCriterionInert ==
    /\ Evaluated =>
          /\ ~config.check_mint_authority =>
                Range(ev.reasons) \cap MintReasons = {}
          /\ ~config.check_freeze_authority =>
                Range(ev.reasons) \cap FreezeReasons = {}
          /\ ~config.check_top_holders =>
                Range(ev.reasons) \cap TopHoldersReasons = {}
    /\ (Evaluated /\ ev.nCalls = 1 /\ ev.rc_result.data) =>
          (ev.passed <=> CheckCriteria(Neutral(ev.rc_result), config).appended = <<>>)
    /\ (ev.impl = "perform_rug_check" /\ ev.pc = "loop" /\ ev.rc_result.data) =>
          config.check_top_holders

C38_Witness ==
    /\ Evaluated
    /\ ev.passed
    /\ config = [check_mint_authority |-> FALSE, check_freeze_authority |-> FALSE,
                 check_top_holders |-> FALSE]
    /\ ev.rc_result.mintAuthority = "enabled"
    /\ ev.rc_result.freezeAuthority = "enabled"
    /\ ev.rc_result.topHolders.shape = "dict"
    /\ ev.rc_result.topHolders.totalPercentage = 85

(***************************************************************************)
(* The concurrency slots and the queue under load                          *)
(* (specifications Spec and FairTaskSpec)                                  *)
(***************************************************************************)
\* C35: every process_pool_async task that acquires a concurrency slot
\* releases it on every exit path (resolver failure, no candidate, evaluator
\* failure, raised exception, normal completion): a finished task holds no
\* slot and whenever no task is in flight all N slots are free; and, provided
\* external calls return, every event taken from the queue eventually
\* acquires a slot and completes.  A task never goes back to an earlier
\* position and a behaviour has finitely many events, so the last part says
\* that from some point on no task is left waiting or in flight.
Completed(s) == tasks[s] \in {"none", "done"}

C35_SlotsReleased ==
    /\ [](InFlight = 0 => semaphore = MAX_CONCURRENT_POOLS)
    /\ [](\A s \in Sigs : tasks[s] = "done" =>
             semaphore + Cardinality({u \in Sigs \ {s} : InSlot(u)})
                 = MAX_CONCURRENT_POOLS)
    /\ <>[](\A s \in Sigs : Completed(s))

C35_Witness ==
    /\ variant = "optimized"
    /\ \A s \in Sigs : tasks[s] = "done"
    /\ semaphore = MAX_CONCURRENT_POOLS

\* events taken from the queue whose task waits for a slot
Waiting == {s \in Sigs : tasks[s] = "waiting"}

\* events accepted into the queue whose processing has not finished
Unfinished == Len(pool_queue) + Cardinality(Waiting) + InFlight

\* C36: end-to-end backpressure: the number of events that are queued,
\* waiting for a slot or in flight never exceeds queue capacity + N, and the
\* consumer takes no event out of the queue while no concurrency slot is
\* available for it (every event taken has a free slot to go to), so that
\* under overload the queue fills and the producer blocks.
C36_EndToEndBackpressure ==
    /\ Unfinished <= QueueMaxsize + MAX_CONCURRENT_POOLS
    /\ Cardinality(Waiting) <= semaphore

(***************************************************************************)
(* The store files across saves and restarts (specification SpecStoreSeq)  *)
(***************************************************************************)
\* no save_token_to_file call is under way
NoSaveRunning == \A t \in Threads : sv[t].pc = "idle"

\* C39: save_token_to_file(t, F) on a well-formed store file F keeps every
\* identifier previously in F, in the same order, adds t at most once at the
\* end, and never modifies the other store file; and a restart of the
\* process (main creates only the missing files) leaves every well-formed
\* store file as it is, so across any sequential series of saves and
\* restarts each store set only grows.
C39_SaveOnlyAppends ==
    [][/\ \A t \in Threads :
             (Returns(t) /\ sv[t].before.kind = "list") =>
                 /\ files'[sv[t].file].kind = "list"
                 /\ \/ files'[sv[t].file].toks = sv[t].before.toks
                    \/ /\ sv[t].tok \notin Range(sv[t].before.toks)
                       /\ files'[sv[t].file].toks
                              = Append(sv[t].before.toks, sv[t].tok)
       /\ \A t \in Threads :
             sv[t].pc # "idle" =>
                 \A g \in FileNames \ {sv[t].file} : files'[g] = files[g]
       /\ (NoSaveRunning /\ NoSaveRunning') =>
             \A f \in FileNames :
                 files[f].kind = "list" => files'[f] = files[f]]_vars

C39_Witness ==
    /\ NoSaveRunning
    /\ nSaves = 3
    /\ saved = {<<1, "valid_tokens.json">>, <<2, "valid_tokens.json">>}
    /\ files["valid_tokens.json"] = [kind |-> "list", toks |-> <<1, 2>>]
    /\ files["unchecked_tokens.json"] = [kind |-> "list", toks |-> <<>>]

=============================================================================
